---- MODULE Spec2Model ----
(***************************************************************************)
(* Verification model of the pbft consensus engine of go-stormchain: the   *)
(* Snapshot / VoteTally state transition, the HeaderVerifier, the          *)
(* SnapshotStore, the Sealer, and the API of consensus/pbft/api.go         *)
(* (src/unnamed/part_000): block queries, proposals and BlockStatus; and   *)
(* the Filestorm service of fst/backend.go that creates the engine and     *)
(* starts and stops the miner; and the AppChainBase contract of            *)
(* cross-chain/contracts/AppChainBase.sol.                                 *)
(*                                                                         *)
(* snapshot.go and pbft.go are not among the source files; the            *)
(* definitions modelling them follow sections 4.1 - 4.4 of the             *)
(* specification and are marked so in MODEL_MAP.json.                      *)
(***************************************************************************)
EXTENDS Integers, Sequences, FiniteSets

\* ------------------------------------------------------------------ bounds
\* Addresses are 1..NumAddr; their numeric order is the canonical order.
NumAddr == 3
\* Longest chain the import action builds.
MaxBlocks == 3
\* Length of the chain the SnapshotStore resolves snapshots on.
MaxChain == 2
\* Number of concurrent get calls on the SnapshotStore.
NumGetters == 2
\* Number of concurrent callers of the API, and of the calls they make in all.
NumCallers == 2
MaxCalls == 3
\* Highest head number BlockStatus is run on.
MaxHead == 66
\* Number of calls made on the Filestorm service.
MaxOps == 2
\* Number of transactions sent to the AppChainBase contract.
MaxTx == 3

\* --------------------------------------------------------------- constants
\* Difficulty of a block sealed in turn / out of turn (section 4.3 step 6;
\* api.go compares header difficulties against diffInTurn).
DiffInTurn == 2
DiffNoTurn == 1
\* Every CheckpointInterval-th snapshot is persisted (section 4.2 leaves the
\* interval open; the model takes a short one).
CheckpointInterval == 2

Addr == 1 .. NumAddr

VARIABLES
    \* block import (HeaderVerifier and apply on the chain head)
    snap,      \* the Snapshot at the chain head
    prev,      \* history: the Snapshot the last accepted header was applied to
    authors,   \* history: authors[n] sealed the accepted block n
    stable,    \* history: number of the last block that changed the signer set
    lastHdr,   \* the last accepted header (NoHeader before the first)
    lastErr,   \* verdict of the import in progress: "none" or its error
    \* SnapshotStore
    chain,     \* the headers the chain reader holds, chain[n] is block n
    genesis,   \* the signers the genesis block names ({} when it names none)
    lost,      \* the block numbers whose header the chain reader cannot return
    cache,     \* in-memory snapshots by block
    disk,      \* persisted checkpoints by block
    gets,      \* the get calls: position, target, walk position, base, result
    \* Sealer
    local,     \* the address the local node seals with
    hasKey,    \* a signing key for local is configured
    sealer,    \* the sealing task: position, height, remaining delay, cancelled
    emitted,   \* history: the seals broadcast, each with the head it was sent on
    \* ConsensusAPI
    heap,      \* the maps in memory, by reference
    pbft,      \* the engines: the reference of the proposals map and the lock
    call,      \* the API call each caller is in: position, method, arguments
    held,      \* the reference Votes returned last to each caller
    log,       \* history: the writes done on each engine's table, in order
    step,      \* history: the API step taken last and its caller
    calls,     \* number of API calls started
    answer,    \* the answer of the last block query
    status,    \* the answer of BlockStatus
    seal0,     \* the genesis header: the address its seal recovers to, difficulty
    \* Filestorm service
    fst,       \* the service: config, engine, stormbase, gasPrice, and the
               \* acceptTxs flag, pool price and wallets of its parts
    made,      \* the consensus engines created: kind, threads, authorized signer
    miner,     \* the miner: mining, coinbase, the Start calls not yet run
    task,      \* the service call each caller is in
    ret,       \* history: the service call that returned last
    ops,       \* number of service calls started
    explicit,  \* history: the address SetEtherbase stored last, 0 if none
    \* AppChainBase contract
    app,       \* the contract: its storage and the ether its address holds
    tx,        \* history: the transaction executed last, and the contract before it
    ledger,    \* history: ether paid in and out, the genesis info stored first
    txs        \* number of transactions executed

importVars == <<snap, prev, authors, stable, lastHdr, lastErr>>
storeVars == <<chain, genesis, lost, cache, disk, gets>>
sealVars == <<local, hasKey, sealer, emitted>>
apiVars == <<heap, pbft, call, held, log, step, calls, answer, status, seal0>>
nodeVars == <<fst, made, miner, task, ret, ops, explicit>>
appVars == <<app, tx, ledger, txs>>
vars == <<importVars, storeVars, sealVars, apiVars, nodeVars, appVars>>

\* ------------------------------------------------------------------- votes
\* A header carries at most one vote; target 0 stands for "no vote".
NoVote == [target |-> 0, authorize |-> FALSE]

VoteSet == {NoVote} \cup [target : Addr, authorize : BOOLEAN]

HasVote(v) == v.target # 0

\* ---------------------------------------------------------------- helpers
\* The addresses of set S in ascending order.
SortedList(S) == SelectSeq([i \in 1 .. NumAddr |-> i], LAMBDA a : a \in S)

Restrict(f, D) == [x \in D |-> f[x]]

\* --------------------------------------------------------------- Snapshot
\* signers: set of addresses; recent: address -> number of the last block it
\* sealed (entries inside the window only); tally: target -> [authorize, count];
\* votes: the cast votes in the order they were cast.
NewSnapshot(number, signerSet) ==
    [number  |-> number,
     signers |-> signerSet,
     recent  |-> << >>,
     tally   |-> << >>,
     votes   |-> << >>]

\* signers() : the signer set as a sorted list.
signers(s) == SortedList(s.signers)

\* The recent window of a signer set of n addresses.
Window(n) == (n \div 2) + 1

\* Position (from 0) of address a in the sorted list l, Len(l) when absent.
RECURSIVE Offset(_, _)
Offset(l, a) ==
    IF l = <<>> \/ Head(l) = a THEN 0 ELSE 1 + Offset(Tail(l), a)

inturnOffByOne(s, number, a) ==
    LET list == signers(s)
    IN  ((number + 1) % Len(list)) = Offset(list, a)

\* inturn(number, address): address sits at index number mod len(signers).
inturn(s, number, a) ==
    LET list == signers(s)
    IN  (number % Len(list)) = Offset(list, a)

\* A vote is valid when it would change the membership of its target.
validVote(s, target, authorize) ==
    (target \in s.signers) # authorize

\* Votes of the list that address a cast / that point at address a.
VotesBy(votes, a) == SelectSeq(votes, LAMBDA v : v.signer = a)

\* uncast: take one vote away from the tally of target; the entry goes with its
\* last vote.
uncast(tally, target) ==
    IF target \notin DOMAIN tally THEN tally
    ELSE IF tally[target].count > 1
         THEN [tally EXCEPT ![target].count = @ - 1]
         ELSE Restrict(tally, DOMAIN tally \ {target})

RECURSIVE uncastAll(_, _)
uncastAll(tally, votes) ==
    IF votes = <<>> THEN tally
    ELSE uncastAll(uncast(tally, Head(votes).target), Tail(votes))

\* Add one vote to the tally of target.
addTally(tally, target, authorize) ==
    IF target \in DOMAIN tally
    THEN [tally EXCEPT ![target].count = @ + 1]
    ELSE [a \in DOMAIN tally \cup {target} |->
            IF a = target THEN [authorize |-> authorize, count |-> 1] ELSE tally[a]]

\* The tally and vote list after an accepted vote: the signer's earlier vote on
\* the target is uncast and dropped, the new vote is counted and appended.
recordVote(s, signer, target, authorize, number) ==
    LET old  == SelectSeq(s.votes, LAMBDA v : v.signer = signer /\ v.target = target)
        rest == SelectSeq(s.votes, LAMBDA v : ~(v.signer = signer /\ v.target = target))
    IN  [ok    |-> TRUE,
         tally |-> addTally(uncastAll(s.tally, old), target, authorize),
         votes |-> Append(rest, [signer |-> signer, target |-> target,
                                  authorize |-> authorize, block |-> number])]

castNoReject(s, signer, target, authorize, number) ==
    recordVote(s, signer, target, authorize, number)

\* cast(snapshot, signer, target, authorize): rejected for a signer outside the
\* signer set and for a vote that would change nothing; otherwise the vote is
\* recorded and counted.  The result is [ok, tally, votes].
cast(s, signer, target, authorize, number) ==
    IF signer \notin s.signers \/ ~validVote(s, target, authorize)
    THEN [ok |-> FALSE, tally |-> s.tally, votes |-> s.votes]
    ELSE recordVote(s, signer, target, authorize, number)

\* ------------------------------------------------------------------ apply
recentlySignedShort(s, author, number) ==
    /\ author \in DOMAIN s.recent
    /\ s.recent[author] > number - Window(Cardinality(s.signers)) + 1

\* The author sealed a block inside the recent window that ends at block number.
recentlySigned(s, author, number) ==
    /\ author \in DOMAIN s.recent
    /\ s.recent[author] > number - Window(Cardinality(s.signers))

\* recent after the author sealed block number: entries older than the window of
\* n signers are evicted.
evict(recent, number, n) ==
    Restrict(recent, {a \in DOMAIN recent : recent[a] > number - Window(n)})

recordRecent(s, author, number) ==
    LET kept == evict(s.recent, number, Cardinality(s.signers))
    IN  [a \in DOMAIN kept \cup {author} |-> IF a = author THEN number ELSE kept[a]]

passedAtHalf(s, target) ==
    /\ target \in DOMAIN s.tally
    /\ s.tally[target].count >= Cardinality(s.signers) \div 2

\* The vote on target passed: its tally holds more than half of the signers.
passed(s, target) ==
    /\ target \in DOMAIN s.tally
    /\ s.tally[target].count > Cardinality(s.signers) \div 2

commitKeepsVotes(s, target) ==
    LET add    == s.tally[target].authorize
        newSet == IF add THEN s.signers \cup {target} ELSE s.signers \ {target}
        votes2 == SelectSeq(s.votes, LAMBDA v : v.target # target)
        tally2 == Restrict(s.tally, DOMAIN s.tally \ {target})
    IN  [s EXCEPT !.signers = newSet, !.votes = votes2, !.tally = tally2]

\* commit: the membership of target changes.  A removed signer's own votes are
\* uncast and dropped and the recent window follows the smaller set; the votes
\* on target and its tally entry are dropped in both directions.
commit(s, target) ==
    LET add      == s.tally[target].authorize
        newSet   == IF add THEN s.signers \cup {target} ELSE s.signers \ {target}
        own      == IF add THEN <<>> ELSE VotesBy(s.votes, target)
        votes1   == IF add THEN s.votes
                    ELSE SelectSeq(s.votes, LAMBDA v : v.signer # target)
        tally1   == uncastAll(s.tally, own)
        votes2   == SelectSeq(votes1, LAMBDA v : v.target # target)
        tally2   == Restrict(tally1, DOMAIN tally1 \ {target})
        recent1  == IF add THEN s.recent
                    ELSE evict(s.recent, s.number + 1, Cardinality(newSet))
    IN  [s EXCEPT !.signers = newSet, !.votes = votes2, !.tally = tally2,
                  !.recent = recent1]

\* apply for one header: [err, snap].
applyHeader(s, h) ==
    IF h.number # s.number + 1 THEN [err |-> "OutOfSequence", snap |-> s]
    ELSE IF recentlySigned(s, h.author, h.number)
    THEN [err |-> "RecentlySigned", snap |-> s]
    ELSE
      LET c  == IF HasVote(h.vote)
                THEN cast(s, h.author, h.vote.target, h.vote.authorize, h.number)
                ELSE [ok |-> FALSE, tally |-> s.tally, votes |-> s.votes]
          s1 == [s EXCEPT !.recent = recordRecent(s, h.author, h.number),
                          !.tally = c.tally, !.votes = c.votes]
          s2 == IF HasVote(h.vote) /\ passed(s1, h.vote.target)
                THEN commit(s1, h.vote.target) ELSE s1
      IN  [err |-> "none", snap |-> [s2 EXCEPT !.number = h.number]]

\* apply(snapshot, headers): the headers in order; the first error ends it.
RECURSIVE apply(_, _)
apply(s, headers) ==
    IF headers = <<>> THEN [err |-> "none", snap |-> s]
    ELSE LET r == applyHeader(s, Head(headers))
         IN  IF r.err # "none" THEN r ELSE apply(r.snap, Tail(headers))

\* --------------------------------------------------------- HeaderVerifier
\* A header: its number, the address its seal recovers to, a defect of the
\* header itself (none, malformed, a bad timestamp, an unrecoverable seal), its
\* difficulty and its vote.
Defects == {"none", "malformed", "badtime", "badsig"}

NoHeader ==
    [number |-> 0, author |-> 0, defect |-> "none", difficulty |-> 0, vote |-> NoVote]

\* The difficulty the author's turn asks for.
calcDifficulty(s, number, author) ==
    IF inturn(s, number, author) THEN DiffInTurn ELSE DiffNoTurn

\* The vote of the header would leave no signer.
emptiesSigners(s, h) ==
    /\ HasVote(h.vote)
    /\ applyHeader(s, h).snap.signers = {}

verifyHeaderNoVoteCheck(s, h) ==
    IF h.defect = "malformed" THEN "MalformedHeader"
    ELSE IF h.defect = "badtime" THEN "InvalidTimestamp"
    ELSE IF h.number # s.number + 1 THEN "ChainReadError"
    ELSE IF h.defect = "badsig" THEN "InvalidSigner"
    ELSE IF h.author \notin s.signers THEN "UnauthorizedSigner"
    ELSE IF recentlySigned(s, h.author, h.number) THEN "RecentlySigned"
    ELSE IF h.difficulty # calcDifficulty(s, h.number, h.author) THEN "InvalidDifficulty"
    ELSE "none"

verifyHeaderNoAuth(s, h) ==
    IF h.defect = "malformed" THEN "MalformedHeader"
    ELSE IF h.defect = "badtime" THEN "InvalidTimestamp"
    ELSE IF h.number # s.number + 1 THEN "ChainReadError"
    ELSE IF h.defect = "badsig" THEN "InvalidSigner"
    ELSE IF recentlySigned(s, h.author, h.number) THEN "RecentlySigned"
    ELSE IF h.difficulty # calcDifficulty(s, h.number, h.author) THEN "InvalidDifficulty"
    ELSE IF emptiesSigners(s, h) THEN "InvalidVote"
    ELSE "none"

\* verifyHeader against the snapshot s at the head: the checks of section 4.3 in
\* their order; "none" when the header is accepted.
verifyHeader(s, h) ==
    IF h.defect = "malformed" THEN "MalformedHeader"
    ELSE IF h.defect = "badtime" THEN "InvalidTimestamp"
    ELSE IF h.number # s.number + 1 THEN "ChainReadError"
    ELSE IF h.defect = "badsig" THEN "InvalidSigner"
    ELSE IF h.author \notin s.signers THEN "UnauthorizedSigner"
    ELSE IF recentlySigned(s, h.author, h.number) THEN "RecentlySigned"
    ELSE IF h.difficulty # calcDifficulty(s, h.number, h.author) THEN "InvalidDifficulty"
    ELSE IF emptiesSigners(s, h) THEN "InvalidVote"
    ELSE "none"

\* ---------------------------------------------------------- SnapshotStore
NoSnapshot ==
    [number |-> 0 - 1, signers |-> {}, recent |-> << >>, tally |-> << >>, votes |-> << >>]

Getters == 1 .. NumGetters

IdleGet ==
    [pc |-> "idle", target |-> 0, cur |-> 0, base |-> NoSnapshot,
     result |-> NoSnapshot, err |-> "none"]

\* A checkpoint read back from disk.
loadSnapshotNoRecent(store, n) == [store[n] EXCEPT !.recent = << >>]

loadSnapshot(store, n) == store[n]

\* The maps with the snapshot of block n added.
put(store, n, s) ==
    [k \in DOMAIN store \cup {n} |-> IF k = n THEN s ELSE store[k]]

\* The headers a walk that stopped at block from has collected for block to.
collected(from, to) == SubSeq(chain, from + 1, to)

\* ---------------------------------------------------------------- actions
\* The store's variables while only block import runs.
StoreAtRest ==
    /\ chain = << >>
    /\ genesis = {}
    /\ lost = {}
    /\ cache = << >>
    /\ disk = << >>
    /\ gets = [g \in Getters |-> IdleGet]

\* The sealer's variables while no sealing task runs.
IdleSealer ==
    [pc |-> "idle", height |-> 0, remaining |-> 0, cancelled |-> FALSE, err |-> "none"]

SealerAtRest ==
    /\ local = 0
    /\ hasKey = FALSE
    /\ sealer = IdleSealer
    /\ emitted = << >>

\* ------------------------------------------------------- ConsensusAPI state
\* The engines, the callers of their APIs and the addresses proposals name.
Engines == {"E1", "E2"}
Callers == 1 .. NumCallers
Targets == {a \in Addr : a <= 2}

\* A map from addresses to bool, as a function on the addresses it holds.
EmptyMap == [a \in {} |-> TRUE]
Maps == UNION {[D -> BOOLEAN] : D \in SUBSET Targets}

\* The references of the maps: the proposals of an engine, and the map the k-th
\* API call makes when it is a Votes call.
NoRef == <<"nil", 0>>
Refs == {<<"proposals", e>> : e \in Engines} \cup {<<"votes", k>> : k \in 1 .. MaxCalls}

\* A free reader/writer lock: nobody holds the writer side, no reader is inside.
FreeLock == [w |-> 0, readers |-> 0]

\* New(): an engine with its own empty proposals map and its own lock.
newProposals(e) == <<"proposals", e>>

NewPbft(e) == [proposals |-> newProposals(e), lock |-> FreeLock]

IdleCall ==
    [pc |-> "idle", method |-> "none", engine |-> "E1", address |-> 0, auth |-> FALSE,
     ref |-> NoRef, todo |-> {}]

NoStep == [op |-> "none", caller |-> 0, engine |-> "none"]
NilResult == [nil |-> TRUE]
NoAnswer ==
    [arg |-> 0, reply |-> [method |-> "none", result |-> NilResult, err |-> "none",
                           asked |-> << >>]]
\* The answer of BlockStatus before it has run: InturnPercent is the quotient
\* of num by numBlocks, a uint64; evaluated counts the headers the walk
\* recovered an author from, and read holds the block numbers the walk asked the
\* chain for (kept for the record also when the call fails); panic says that
\* the call ended in a run-time panic, with neither a result nor an error, and
\* err then names the panic.
NoStatus ==
    [done |-> FALSE, err |-> "none", num |-> 0, numBlocks |-> <<0, 0, 0, 0>>,
     signStatus |-> EmptyMap, evaluated |-> 0, optimals |-> 0, read |-> {},
     panic |-> FALSE]

\* The API's variables while no API is in use.
ApiAtRest ==
    /\ heap = [r \in Refs |-> EmptyMap]
    /\ pbft = [e \in Engines |-> NewPbft(e)]
    /\ call = [p \in Callers |-> IdleCall]
    /\ held = [p \in Callers |-> NoRef]
    /\ log = [e \in Engines |-> << >>]
    /\ step = NoStep
    /\ calls = 0
    /\ answer = NoAnswer
    /\ status = NoStatus
    /\ seal0 = [author |-> 0, difficulty |-> DiffNoTurn]

\* ------------------------------------------------ Filestorm service state
\* common.Address{}: the address that stands for "not set".
NoAddress == 0
\* The accounts that wallets, configurations and blocks name.
Accounts == {a \in Addr : a <= 2}
\* The engines of proof of authority.
PoA == {"clique", "pbft"}
PowModes == {"normal", "fake", "test", "shared"}

\* The configuration New is given: whether the chain config holds a Clique and a
\* Pbft section, the PowMode, the local accounts of the transaction pool and the
\* stormbase of the miner section.
Configs ==
    [clique : BOOLEAN, pbft : BOOLEAN, powMode : PowModes,
     locals : {{}, {2}}, stormbase : Accounts \cup {NoAddress}]

\* What the account manager holds: wallets in order, each with its accounts in
\* order.
WalletLists == {<< >>, << << >> >>, << <<1>> >>, << <<2>>, <<1>> >>}

\* An engine object: threads is the thread count of an engine that mines on
\* CPU threads, signer the address it was authorized to sign with.
NewEngine(kind, threads) == [kind |-> kind, threads |-> threads, signer |-> NoAddress]

\* An engine choice that looks at the Pbft section first.
CreateConsensusEnginePbftFirst(config) ==
    IF config.pbft THEN NewEngine("pbft", 0)
    ELSE IF config.clique THEN NewEngine("clique", 0)
    ELSE IF config.powMode = "fake" THEN NewEngine("faker", 0)
    ELSE IF config.powMode = "test" THEN NewEngine("tester", 0)
    ELSE IF config.powMode = "shared" THEN NewEngine("shared", 0)
    ELSE NewEngine("fstash", -1)

CreateConsensusEngine(config) ==
    IF config.clique THEN NewEngine("clique", 0)
    ELSE IF config.pbft THEN NewEngine("pbft", 0)
    ELSE IF config.powMode = "fake" THEN NewEngine("faker", 0)
    ELSE IF config.powMode = "test" THEN NewEngine("tester", 0)
    ELSE IF config.powMode = "shared" THEN NewEngine("shared", 0)
    ELSE NewEngine("fstash", -1)

\* type threaded interface { SetThreads(threads int) }: the engines of proof of
\* work have it.
threaded(e) == e.kind \notin PoA
SetThreads(e, threads) == [e EXCEPT !.threads = threads]

\* A block as the service sees it: the address its author field or seal gives,
\* and whether it carries a seal an engine of proof of authority can recover.
NoBlock == [author |-> NoAddress, sealed |-> FALSE]
Blocks == [author : Accounts \cup {NoAddress}, sealed : BOOLEAN]

IdleTask ==
    [op |-> "none", pc |-> "idle", threads |-> 0, eb |-> NoAddress, touched |-> {}]

\* The record of a returned call: its error, the stormbase it resolved or read,
\* its boolean result, what it was asked about, and for StartMining whether the
\* miner was mining, the address the miner was started with and what the call
\* changed.
NoRet ==
    [op |-> "none", err |-> "none", eb |-> NoAddress, result |-> FALSE,
     block |-> NoBlock, threads |-> 0, wasMining |-> FALSE, started |-> NoAddress,
     touched |-> {}]

\* New(ctx, config): the service and its parts after construction, given what
\* the account manager holds and the flag of the protocol manager.
NewServiceAt(config, wallets, acceptTxs) ==
    /\ fst = [config |-> config, engine |-> 1, stormbase |-> config.stormbase,
              gasPrice |-> 1, acceptTxs |-> acceptTxs, poolPrice |-> 0,
              wallets |-> wallets]
    /\ made = <<CreateConsensusEngine(config)>>
    /\ miner = [mining |-> FALSE, coinbase |-> config.stormbase, pending |-> << >>]
    /\ task = [p \in Callers |-> IdleTask]
    /\ ret = NoRet
    /\ ops = 0
    /\ explicit = NoAddress

\* The service's variables while no service call is made.
NodeAtRest ==
    NewServiceAt([clique |-> FALSE, pbft |-> TRUE, powMode |-> "normal",
                  locals |-> {}, stormbase |-> NoAddress], << >>, 0)

\* ------------------------------------------------- AppChainBase state
\* The contract computes in words of 256 bits; the model's word is 16 bits
\* wide, far above every amount and block number that is paid or passed in.
Word == 65536
\* FOUNDATION_MOAC_REQUIRED_AMOUNT and FLUSH_AMOUNT, in units of 10 ** 16.
Required == 50
FlushAmount == 5

\* The validator lists passed to the constructor and to flush.
ValidatorLists == {<< >>, <<2>>, <<2, 3>>}

\* The contract after constructor(name, uniqueId, blockSec, flushNumber,
\* initial_validators, totalSupply) sent by sender with value, at an address
\* that held the ether extra before.
constructed(sender, value, flushNumber, initial_validators, extra) ==
    [owner |-> sender,
     admins |-> [a \in Addr |-> IF a = sender THEN 1 ELSE 0],
     chainName |-> "name",
     balance |-> value,
     ether |-> value + extra,
     flushEpoch |-> flushNumber,
     lastFlushedBlock |-> 0,
     genesisInfo |-> "",
     genesisSet |-> FALSE,
     flushMapping |-> <<[flushId |-> 0, validator |-> sender, blockNumber |-> 1,
                         blockHash |-> ""]>>,
     flushList |-> <<0>>,
     flushValidatorList |-> <<initial_validators>>]

\* No transaction yet. A transaction is recorded with its sender and arguments,
\* whether it reverted, whether it recorded a flush round, and the contract
\* before it.
NoTx(before) ==
    [op |-> "constructor", sender |-> 0, reverted |-> FALSE, recorded |-> FALSE,
     blockNumber |-> 0, genesis |-> "", before |-> before]

NewLedger(value) ==
    [deposit |-> value, added |-> 0, withdrawn |-> 0, stored |-> FALSE, first |-> ""]

\* The contract's variables while the contract is not in use.
AppAtRest ==
    /\ app = constructed(1, Required, 0, << >>, 0)
    /\ tx = NoTx(app)
    /\ ledger = NewLedger(Required)
    /\ txs = 0

\* The import variables while only the store runs.
ImportAtRest ==
    /\ snap = NoSnapshot
    /\ prev = NoSnapshot
    /\ authors = << >>
    /\ stable = 0
    /\ lastHdr = NoHeader
    /\ lastErr = "none"

\* The genesis configuration names the first signers.
Init ==
    /\ \E k \in Addr : snap = NewSnapshot(0, 1 .. k)
    /\ prev = snap
    /\ authors = <<>>
    /\ stable = 0
    /\ lastHdr = NoHeader
    /\ lastErr = "none"
    /\ StoreAtRest
    /\ SealerAtRest
    /\ ApiAtRest
    /\ NodeAtRest
    /\ AppAtRest

\* Block import: the header is verified against the snapshot at its parent and,
\* when accepted, applied to it; a rejected header changes nothing and its
\* error goes back to the caller.
VerifyAndImport(h) ==
    /\ snap.number < MaxBlocks
    /\ lastErr = "none"
    /\ LET e == verifyHeader(snap, h)
           r == applyHeader(snap, h)
       IN  IF e = "none" /\ r.err = "none"
           THEN /\ snap' = r.snap
                /\ prev' = snap
                /\ authors' = Append(authors, h.author)
                /\ stable' = IF r.snap.signers # snap.signers THEN h.number ELSE stable
                /\ lastHdr' = h
                /\ lastErr' = "none"
           ELSE /\ lastErr' = (IF e # "none" THEN e ELSE r.err)
                /\ UNCHANGED <<snap, prev, authors, stable, lastHdr>>
    /\ UNCHANGED <<storeVars, sealVars, apiVars, nodeVars, appVars>>

\* The caller takes the error of a rejected header; the next import starts.
ReturnError ==
    /\ lastErr # "none"
    /\ lastErr' = "none"
    /\ UNCHANGED <<snap, prev, authors, stable, lastHdr>>
    /\ UNCHANGED <<storeVars, sealVars, apiVars, nodeVars, appVars>>

\* The headers offered on top of block n - 1: every sound header for number n,
\* and for each defect (and for a number whose parent is unknown) one header
\* per author.
Inputs(n) ==
    [number : {n}, author : Addr, defect : {"none"},
     difficulty : {DiffInTurn, DiffNoTurn}, vote : VoteSet]
    \cup [number : {n}, author : Addr, defect : Defects \ {"none"},
          difficulty : {DiffNoTurn}, vote : {NoVote}]
    \cup [number : {n + 1}, author : Addr, defect : {"none"},
          difficulty : {DiffNoTurn}, vote : {NoVote}]

Next ==
    \/ \E h \in Inputs(snap.number + 1) : VerifyAndImport(h)
    \/ ReturnError

Spec == Init /\ [][Next]_vars

\* ------------------------------------------------- SnapshotStore actions
\* The chains the store is run on: MaxChain blocks on a genesis that names the
\* signers 1..k, each sealed in turn and carrying no vote or the vote that
\* admits the highest address, and accepted by the verifier one after the other.
ChainVotes ==
    {NoVote, [target |-> NumAddr, authorize |-> TRUE]}

RECURSIVE Accepted(_, _)
Accepted(s, headers) ==
    IF headers = << >> THEN TRUE
    ELSE /\ verifyHeader(s, Head(headers)) = "none"
         /\ Accepted(applyHeader(s, Head(headers)).snap, Tail(headers))

ChainHeaders(n) ==
    [number : {n}, author : Addr, defect : {"none"},
     difficulty : {DiffInTurn}, vote : ChainVotes]

\* The store starts with an empty cache and no checkpoint, on a chain reader
\* that holds an accepted chain and whose genesis may name no signers.
InitStore ==
    /\ ImportAtRest
    /\ \E k \in Addr :
         \E hs \in [1 .. MaxChain -> UNION {ChainHeaders(n) : n \in 1 .. MaxChain}] :
            /\ \A n \in 1 .. MaxChain : hs[n].number = n
            /\ Accepted(NewSnapshot(0, 1 .. k), hs)
            /\ chain = hs
            /\ genesis \in {1 .. k, {}}
    /\ lost = {}
    /\ cache = << >>
    /\ disk = << >>
    /\ gets = [g \in Getters |-> IdleGet]
    /\ SealerAtRest
    /\ ApiAtRest
    /\ NodeAtRest
    /\ AppAtRest

\* get(chainReader, number, hash) is called for block t.
StartGet(g, t) ==
    /\ gets[g].pc = "idle"
    /\ gets' = [gets EXCEPT ![g] = [@ EXCEPT !.pc = "walk", !.target = t, !.cur = t]]
    /\ UNCHANGED <<chain, genesis, lost, cache, disk>>
    /\ UNCHANGED <<importVars, sealVars, apiVars, nodeVars, appVars>>

\* One round of the backward walk at block cur: the cache, then the checkpoint
\* on disk, then the genesis block, else the header is collected and the walk
\* moves to its parent.
Walk(g) ==
    /\ gets[g].pc = "walk"
    /\ LET n == gets[g].cur
       IN  IF n \in DOMAIN cache
           THEN gets' = [gets EXCEPT ![g] = [@ EXCEPT !.pc = "replay", !.base = cache[n]]]
           ELSE IF n % CheckpointInterval = 0 /\ n \in DOMAIN disk
           THEN gets' = [gets EXCEPT ![g] =
                            [@ EXCEPT !.pc = "replay", !.base = loadSnapshot(disk, n)]]
           ELSE IF n = 0
           THEN IF genesis = {}
                THEN gets' = [gets EXCEPT ![g] =
                                 [@ EXCEPT !.pc = "failed", !.err = "GenesisMismatch"]]
                ELSE gets' = [gets EXCEPT ![g] =
                                 [@ EXCEPT !.pc = "replay", !.base = NewSnapshot(0, genesis)]]
           ELSE IF n \in lost
           THEN gets' = [gets EXCEPT ![g] =
                            [@ EXCEPT !.pc = "failed", !.err = "ChainReadError"]]
           ELSE gets' = [gets EXCEPT ![g] = [@ EXCEPT !.cur = n - 1]]
    /\ UNCHANGED <<chain, genesis, lost, cache, disk>>
    /\ UNCHANGED <<importVars, sealVars, apiVars, nodeVars, appVars>>

\* The collected headers are applied to the base; the result goes to the cache
\* and, at a checkpoint boundary, to disk.
Replay(g) ==
    /\ gets[g].pc = "replay"
    /\ LET t == gets[g].target
           r == apply(gets[g].base, collected(gets[g].cur, t))
       IN  IF r.err # "none"
           THEN /\ gets' = [gets EXCEPT ![g] = [@ EXCEPT !.pc = "failed", !.err = r.err]]
                /\ UNCHANGED <<cache, disk>>
           ELSE /\ gets' = [gets EXCEPT ![g] = [@ EXCEPT !.pc = "done", !.result = r.snap]]
                /\ cache' = put(cache, t, r.snap)
                /\ disk' = IF t % CheckpointInterval = 0 THEN put(disk, t, r.snap) ELSE disk
    /\ UNCHANGED <<chain, genesis, lost>>
    /\ UNCHANGED <<importVars, sealVars, apiVars, nodeVars, appVars>>

\* The cache drops an entry.
Evict(n) ==
    /\ n \in DOMAIN cache
    /\ cache' = Restrict(cache, DOMAIN cache \ {n})
    /\ UNCHANGED <<chain, genesis, lost, disk, gets>>
    /\ UNCHANGED <<importVars, sealVars, apiVars, nodeVars, appVars>>

\* The chain reader stops returning its oldest header, that of block 1.
LoseHeader ==
    /\ lost = {}
    /\ genesis # {}
    /\ lost' = {1}
    /\ UNCHANGED <<chain, genesis, cache, disk, gets>>
    /\ UNCHANGED <<importVars, sealVars, apiVars, nodeVars, appVars>>

NextStore ==
    \/ \E g \in Getters, t \in 0 .. MaxChain : StartGet(g, t)
    \/ \E g \in Getters : Walk(g)
    \/ \E g \in Getters : Replay(g)
    \/ \E n \in 0 .. MaxChain : Evict(n)
    \/ LoseHeader

SpecStore == InitStore /\ [][NextStore]_vars

\* ----------------------------------------------------------------- Sealer
\* The signers that may seal block number out of turn: not the in-turn signer
\* and not inside the recent window.
outOfTurn(s, number) ==
    {a \in s.signers : ~inturn(s, number, a) /\ ~recentlySigned(s, a, number)}

\* The delay before an out-of-turn seal: the position of the address among the
\* signers that may seal out of turn, in time units; none in turn.
backoff(s, number, a) ==
    IF inturn(s, number, a) THEN 0
    ELSE 1 + Cardinality({x \in outOfTurn(s, number) : x < a})

\* The sealing task runs on the snapshot at the head, with or without a key.
InitSeal ==
    /\ \E k \in Addr : snap = NewSnapshot(0, 1 .. k)
    /\ prev = snap
    /\ authors = << >>
    /\ stable = 0
    /\ lastHdr = NoHeader
    /\ lastErr = "none"
    /\ StoreAtRest
    /\ local \in Addr
    /\ hasKey \in BOOLEAN
    /\ sealer = IdleSealer
    /\ emitted = << >>
    /\ ApiAtRest
    /\ NodeAtRest
    /\ AppAtRest

\* seal(block) for the block on top of the head: the local address has to be a
\* signer with a key that did not seal inside the recent window; the task then
\* waits for its delay.
StartSeal ==
    /\ sealer.pc = "idle"
    /\ snap.number < MaxBlocks
    /\ LET h == snap.number + 1
       IN  sealer' =
             IF local \notin snap.signers
             THEN [IdleSealer EXCEPT !.pc = "error", !.height = h,
                                     !.err = "UnauthorizedSigner"]
             ELSE IF ~hasKey
             THEN [IdleSealer EXCEPT !.pc = "error", !.height = h,
                                     !.err = "SignerUnavailable"]
             ELSE IF recentlySigned(snap, local, h)
             THEN [IdleSealer EXCEPT !.pc = "mustwait", !.height = h]
             ELSE [IdleSealer EXCEPT !.pc = "waiting", !.height = h,
                                     !.remaining = backoff(snap, h, local)]
    /\ UNCHANGED <<local, hasKey, emitted>>
    /\ UNCHANGED <<importVars, storeVars, apiVars, nodeVars, appVars>>

\* Time passes for the waiting task.
Tick ==
    /\ sealer.pc = "waiting"
    /\ sealer.remaining > 0
    /\ ~sealer.cancelled
    /\ sealer' = [sealer EXCEPT !.remaining = @ - 1]
    /\ UNCHANGED <<local, hasKey, emitted>>
    /\ UNCHANGED <<importVars, storeVars, apiVars, nodeVars, appVars>>

\* The delay is over: the block is signed.
Sign ==
    /\ sealer.pc = "waiting"
    /\ sealer.remaining = 0
    /\ ~sealer.cancelled
    /\ sealer' = [sealer EXCEPT !.pc = "signed"]
    /\ UNCHANGED <<local, hasKey, emitted>>
    /\ UNCHANGED <<importVars, storeVars, apiVars, nodeVars, appVars>>

\* The task sees that it was cancelled: it ends without a block and without an
\* error.
Abort ==
    /\ sealer.pc \in {"waiting", "signed"}
    /\ sealer.cancelled
    /\ sealer' = [sealer EXCEPT !.pc = "aborted"]
    /\ UNCHANGED <<local, hasKey, emitted>>
    /\ UNCHANGED <<importVars, storeVars, apiVars, nodeVars, appVars>>

BroadcastUnchecked ==
    /\ sealer.pc = "signed"
    /\ sealer' = [sealer EXCEPT !.pc = "sent"]
    /\ emitted' = Append(emitted, [height |-> sealer.height, head |-> snap.number])
    /\ UNCHANGED <<local, hasKey>>
    /\ UNCHANGED <<importVars, storeVars, apiVars, nodeVars, appVars>>

\* The final step: the sealed block is broadcast, unless the task was cancelled.
Broadcast ==
    /\ sealer.pc = "signed"
    /\ ~sealer.cancelled
    /\ sealer' = [sealer EXCEPT !.pc = "sent"]
    /\ emitted' = Append(emitted, [height |-> sealer.height, head |-> snap.number])
    /\ UNCHANGED <<local, hasKey>>
    /\ UNCHANGED <<importVars, storeVars, apiVars, nodeVars, appVars>>

\* A block of some signer, carrying no vote, becomes the new head; a sealing task
\* that works on its height is cancelled.
NewHead(h) ==
    /\ snap.number < MaxBlocks
    /\ verifyHeader(snap, h) = "none"
    /\ snap' = applyHeader(snap, h).snap
    /\ sealer' = IF sealer.pc \in {"waiting", "signed"} /\ sealer.height = h.number
                 THEN [sealer EXCEPT !.cancelled = TRUE]
                 ELSE sealer
    /\ UNCHANGED <<prev, authors, stable, lastHdr, lastErr>>
    /\ UNCHANGED <<local, hasKey, emitted>>
    /\ UNCHANGED <<storeVars, apiVars, nodeVars, appVars>>

\* The engine takes up sealing again once the head has moved on.
Retry ==
    /\ sealer.pc \in {"sent", "aborted", "error", "mustwait"}
    /\ snap.number >= sealer.height
    /\ sealer' = IdleSealer
    /\ UNCHANGED <<local, hasKey, emitted>>
    /\ UNCHANGED <<importVars, storeVars, apiVars, nodeVars, appVars>>

NextSeal ==
    \/ StartSeal
    \/ Tick
    \/ Sign
    \/ Abort
    \/ Broadcast
    \/ \E h \in [number : {snap.number + 1}, author : Addr, defect : {"none"},
                 difficulty : {DiffInTurn, DiffNoTurn}, vote : {NoVote}] : NewHead(h)
    \/ Retry

SpecSeal == InitSeal /\ [][NextSeal]_vars

\* ----------------------------------------------- ConsensusAPI: proposals
\* api.pbft.proposals: the proposals map of the engine the API is bound to.
tableOfFirst(e) == pbft["E1"].proposals

tableOf(e) == pbft[e].proposals

\* proposals[address] = auth
voteEntryAlone(m, address, auth) == [x \in {address} |-> auth]

voteEntry(m, address, auth) ==
    [x \in DOMAIN m \cup {address} |-> IF x = address THEN auth ELSE m[x]]

\* delete(proposals, address)
dropEntry(m, address) == [x \in DOMAIN m \ {address} |-> m[x]]

\* The map a Votes call hands back: the one it made.
votesResultShared(c) == tableOf(c.engine)

votesResult(c) == c.ref

\* A caller starts a call of Votes, Vote or DropVote on the API of engine e.
StartCall(p, e, method, address, auth) ==
    /\ call[p].pc = "idle"
    /\ calls < MaxCalls
    /\ calls' = calls + 1
    /\ call' = [call EXCEPT ![p] =
                  [IdleCall EXCEPT !.pc = IF method = "Votes" THEN "rlock" ELSE "lock",
                                   !.method = method, !.engine = e,
                                   !.address = address, !.auth = auth,
                                   !.ref = <<"votes", calls + 1>>]]
    /\ step' = [op |-> "call", caller |-> p, engine |-> e]
    /\ UNCHANGED <<heap, pbft, held, log, answer, status, seal0>>
    /\ UNCHANGED <<importVars, storeVars, sealVars, nodeVars, appVars>>

\* lock.RLock(), which waits while a writer holds or awaits the lock, and
\* proposals := make(map[common.Address]bool).
RLock(p) ==
    /\ call[p].pc = "rlock"
    /\ pbft[call[p].engine].lock.w = 0
    /\ pbft' = [pbft EXCEPT ![call[p].engine].lock.readers = @ + 1]
    /\ heap' = [heap EXCEPT ![call[p].ref] = EmptyMap]
    /\ call' = [call EXCEPT ![p].pc = "range", ![p].todo = Targets]
    /\ step' = [op |-> "RLock", caller |-> p, engine |-> call[p].engine]
    /\ UNCHANGED <<held, log, calls, answer, status, seal0>>
    /\ UNCHANGED <<importVars, storeVars, sealVars, nodeVars, appVars>>

\* One round of the range over the engine's proposals: the entry of an address
\* not yet visited, when the table holds one, is copied.
RangeStep(p) ==
    /\ call[p].pc = "range"
    /\ \E a \in call[p].todo :
         LET table == heap[tableOf(call[p].engine)]
         IN  /\ heap' = IF a \in DOMAIN table
                        THEN [heap EXCEPT ![call[p].ref] = voteEntry(@, a, table[a])]
                        ELSE heap
             /\ call' = [call EXCEPT ![p].todo = @ \ {a}]
    /\ step' = [op |-> "range", caller |-> p, engine |-> call[p].engine]
    /\ UNCHANGED <<pbft, held, log, calls, answer, status, seal0>>
    /\ UNCHANGED <<importVars, storeVars, sealVars, nodeVars, appVars>>

\* return proposals, with the deferred lock.RUnlock().
VotesReturn(p) ==
    /\ call[p].pc = "range"
    /\ call[p].todo = {}
    /\ held' = [held EXCEPT ![p] = votesResult(call[p])]
    /\ pbft' = [pbft EXCEPT ![call[p].engine].lock.readers = @ - 1]
    /\ call' = [call EXCEPT ![p] = IdleCall]
    /\ step' = [op |-> "VotesReturn", caller |-> p, engine |-> call[p].engine]
    /\ UNCHANGED <<heap, log, calls, answer, status, seal0>>
    /\ UNCHANGED <<importVars, storeVars, sealVars, nodeVars, appVars>>

LockSkipped(p) ==
    /\ call[p].pc = "lock"
    /\ call' = [call EXCEPT ![p].pc = "write"]
    /\ step' = [op |-> "Lock", caller |-> p, engine |-> call[p].engine]
    /\ UNCHANGED <<heap, pbft, held, log, calls, answer, status, seal0>>
    /\ UNCHANGED <<importVars, storeVars, sealVars, nodeVars, appVars>>

\* lock.Lock(): takes the writer side, which keeps new readers out, ...
Lock(p) ==
    /\ call[p].pc = "lock"
    /\ pbft[call[p].engine].lock.w = 0
    /\ pbft' = [pbft EXCEPT ![call[p].engine].lock.w = p]
    /\ call' = [call EXCEPT ![p].pc = "drain"]
    /\ step' = [op |-> "Lock", caller |-> p, engine |-> call[p].engine]
    /\ UNCHANGED <<heap, held, log, calls, answer, status, seal0>>
    /\ UNCHANGED <<importVars, storeVars, sealVars, nodeVars, appVars>>

\* ... and waits until the readers inside have left.
LockDrained(p) ==
    /\ call[p].pc = "drain"
    /\ pbft[call[p].engine].lock.readers = 0
    /\ call' = [call EXCEPT ![p].pc = "write"]
    /\ step' = [op |-> "Lock", caller |-> p, engine |-> call[p].engine]
    /\ UNCHANGED <<heap, pbft, held, log, calls, answer, status, seal0>>
    /\ UNCHANGED <<importVars, storeVars, sealVars, nodeVars, appVars>>

unlockMissing(l, p) == l

\* lock.Unlock() by the caller that holds the writer side.
unlock(l, p) == [l EXCEPT !.w = 0]

\* The body of Vote or DropVote, one write to the engine's proposals, with the
\* deferred lock.Unlock() and the return.
Write(p) ==
    /\ call[p].pc = "write"
    /\ LET c == call[p]
           r == tableOf(c.engine)
       IN  /\ heap' = [heap EXCEPT ![r] =
                         IF c.method = "Vote" THEN voteEntry(@, c.address, c.auth)
                         ELSE dropEntry(@, c.address)]
           /\ log' = [log EXCEPT ![c.engine] =
                         Append(@, [method |-> c.method, address |-> c.address,
                                    auth |-> c.auth])]
           /\ pbft' = [pbft EXCEPT ![c.engine].lock = unlock(@, p)]
    /\ call' = [call EXCEPT ![p] = IdleCall]
    /\ step' = [op |-> "write", caller |-> p, engine |-> call[p].engine]
    /\ UNCHANGED <<held, calls, answer, status, seal0>>
    /\ UNCHANGED <<importVars, storeVars, sealVars, nodeVars, appVars>>

\* The caller changes the map that Votes returned to it.
ChangeResult(p, address, auth) ==
    /\ call[p].pc = "idle"
    /\ held[p] # NoRef
    /\ calls < MaxCalls
    /\ calls' = calls + 1
    /\ heap' = [heap EXCEPT ![held[p]] = voteEntry(@, address, auth)]
    /\ step' = [op |-> "change", caller |-> p, engine |-> "none"]
    /\ UNCHANGED <<pbft, call, held, log, answer>>
    /\ UNCHANGED <<status, seal0>>
    /\ UNCHANGED <<importVars, storeVars, sealVars, nodeVars, appVars>>

\* ------------------------------------------------- ConsensusAPI: queries
\* uint64 values are four 16-bit limbs, the most significant first.
Limb == 65536
WindowSize == 64

\* uint64(n) of a 64-bit integer n of small magnitude: two's complement.
toUint64(n) ==
    IF n >= 0 THEN <<0, 0, 0, n>> ELSE <<Limb - 1, Limb - 1, Limb - 1, Limb + n>>

\* a - b in uint64: limb by limb with borrow, modulo 2^64.
subUint64(a, b) ==
    LET b4 == IF a[4] < b[4] THEN 1 ELSE 0
        b3 == IF a[3] < b[3] + b4 THEN 1 ELSE 0
        b2 == IF a[2] < b[2] + b3 THEN 1 ELSE 0
    IN  <<(a[1] - b[1] - b2) % Limb, (a[2] - b[2] - b3) % Limb,
          (a[3] - b[3] - b4) % Limb, (a[4] - b[4]) % Limb>>

\* a < b in uint64.
ltUint64(a, b) ==
    \E i \in 1 .. 4 : a[i] < b[i] /\ \A j \in 1 .. i - 1 : a[j] = b[j]

\* Header.Hash(): the hash of the canonical block n; no block has an even hash.
headerHash(n) == 2 * n + 1

\* A block number argument: absent, or a 64-bit integer; "latest" and
\* "pending" are negative numbers.
LatestBlockNumber == -1
PendingBlockNumber == -2
NilNumber == [nil |-> TRUE, n |-> 0]
Number(n) == [nil |-> FALSE, n |-> n]

\* The chain reader: a header, as far as the API reads it, or nil.
NilHeader ==
    [nil |-> TRUE, number |-> 0, hash |-> 0, author |-> 0, difficulty |-> 0]

headerOf(n) ==
    [nil |-> FALSE, number |-> n, hash |-> headerHash(n),
     author |-> IF n = 0 THEN seal0.author ELSE chain[n].author,
     difficulty |-> IF n = 0 THEN seal0.difficulty ELSE chain[n].difficulty]

\* CurrentHeader(): the head, or nil when the chain reader cannot return it.
CurrentHeader == IF Len(chain) \in lost THEN NilHeader ELSE headerOf(Len(chain))

GetHeaderByNumber(u) ==
    IF u[1] = 0 /\ u[2] = 0 /\ u[3] = 0 /\ u[4] <= Len(chain) /\ u[4] \notin lost
    THEN headerOf(u[4]) ELSE NilHeader

GetHeaderByHash(hash) ==
    IF \E n \in 0 .. Len(chain) : headerHash(n) = hash
    THEN headerOf(CHOOSE n \in 0 .. Len(chain) : headerHash(n) = hash)
    ELSE NilHeader

\* pbft.snapshot(chain, number, hash, nil): the Snapshot at the block, or the
\* store's error: the blocks from..to of the chain are applied in order (the
\* first half, then the second), starting from the genesis signers.
RECURSIVE replay(_, _, _)
replay(r, from, to) ==
    IF r.err # "none" \/ from > to THEN r
    ELSE IF from = to THEN applyHeader(r.snap, chain[from])
    ELSE replay(replay(r, from, (from + to) \div 2), ((from + to) \div 2) + 1, to)

snapshot(number, hash) ==
    IF genesis = {} THEN [err |-> "GenesisMismatch", snap |-> NoSnapshot]
    ELSE replay([err |-> "none", snap |-> NewSnapshot(0, genesis)], 1, number)

\* pbft.Author(header): the address the seal recovers to, or an error.
Author(h) ==
    IF h.author = 0 THEN [err |-> "MissingSignature", address |-> 0]
    ELSE [err |-> "none", address |-> h.author]

UnknownBlock(method) ==
    [method |-> method, result |-> NilResult, err |-> "UnknownBlock", asked |-> << >>]

\* return api.pbft.snapshot(api.chain, header.Number.Uint64(), header.Hash(), nil)
snapshotOf(method, header) ==
    LET r == snapshot(header.number, header.hash)
    IN  [method |-> method, result |-> IF r.err = "none" THEN [nil |-> FALSE, value |-> r.snap]
                                     ELSE NilResult,
         err |-> r.err, asked |-> << <<header.number, header.hash>> >>]

\* A lookup that answers a failed snapshot with an empty signer list.
signersOfEmpty(method, header) ==
    LET r == snapshot(header.number, header.hash)
    IN  [method |-> method,
         result |-> [nil |-> FALSE,
                     value |-> IF r.err = "none" THEN signers(r.snap) ELSE << >>],
         err |-> "none", asked |-> << <<header.number, header.hash>> >>]

\* snap, err := api.pbft.snapshot(...); return snap.signers(), nil
signersOf(method, header) ==
    LET r == snapshot(header.number, header.hash)
    IN  [method |-> method, result |-> IF r.err = "none" THEN [nil |-> FALSE, value |-> signers(r.snap)]
                                     ELSE NilResult,
         err |-> r.err, asked |-> << <<header.number, header.hash>> >>]

GetBlockStatusByNumber(number) ==
    LET header == IF number.nil \/ number.n = LatestBlockNumber THEN CurrentHeader
                  ELSE GetHeaderByNumber(toUint64(number.n))
    IN  IF header.nil THEN UnknownBlock("GetBlockStatusByNumber")
        ELSE snapshotOf("GetBlockStatusByNumber", header)

GetBlockStatusByHash(hash) ==
    LET header == GetHeaderByHash(hash)
    IN  IF header.nil THEN UnknownBlock("GetBlockStatusByHash")
        ELSE snapshotOf("GetBlockStatusByHash", header)

GetValidatorsByNumberNoLatest(number) ==
    LET header == IF number.nil THEN CurrentHeader
                  ELSE GetHeaderByNumber(toUint64(number.n))
    IN  IF header.nil THEN UnknownBlock("GetValidatorsByNumber")
        ELSE signersOf("GetValidatorsByNumber", header)

GetValidatorsByNumber(number) ==
    LET header == IF number.nil \/ number.n = LatestBlockNumber THEN CurrentHeader
                  ELSE GetHeaderByNumber(toUint64(number.n))
    IN  IF header.nil THEN UnknownBlock("GetValidatorsByNumber")
        ELSE signersOf("GetValidatorsByNumber", header)

GetValidatorsByHashUnchecked(hash) ==
    signersOf("GetValidatorsByHash", GetHeaderByHash(hash))

GetValidatorsByHash(hash) ==
    LET header == GetHeaderByHash(hash)
    IN  IF header.nil THEN UnknownBlock("GetValidatorsByHash")
        ELSE signersOf("GetValidatorsByHash", header)

\* signStatus[sealer] = 1
countSealerOnce(m, addr) ==
    [x \in DOMAIN m \cup {addr} |-> IF x = addr THEN 1 ELSE m[x]]

\* signStatus[sealer]++
countSealer(m, addr) ==
    [x \in DOMAIN m \cup {addr} |->
        IF x = addr THEN (IF x \in DOMAIN m THEN m[x] ELSE 0) + 1 ELSE m[x]]

\* A round that goes on to the next block when the chain has no header.
statusRoundSkipping(acc, n) ==
    LET h == GetHeaderByNumber(toUint64(n))
    IN  IF h.nil THEN [acc EXCEPT !.read = @ \cup {n}]
        ELSE LET recovered == Author(h)
             IN  IF recovered.err # "none"
                 THEN [acc EXCEPT !.err = recovered.err, !.read = @ \cup {n}]
                 ELSE [acc EXCEPT !.optimals = IF h.difficulty = DiffInTurn
                                               THEN @ + 1 ELSE @,
                                  !.evaluated = @ + 1,
                                  !.read = @ \cup {n},
                                  !.signStatus = countSealer(@, recovered.address)]

\* One round of the walk, at block n, with the counts so far.
statusRound(acc, n) ==
    LET h == GetHeaderByNumber(toUint64(n))
    IN  IF h.nil THEN [acc EXCEPT !.err = "missing block", !.read = @ \cup {n}]
        ELSE LET optimals == IF h.difficulty = DiffInTurn
                             THEN acc.optimals + 1 ELSE acc.optimals
                 recovered == Author(h)
             IN  IF recovered.err # "none"
                 THEN [acc EXCEPT !.err = recovered.err, !.read = @ \cup {n}]
                 ELSE [acc EXCEPT !.optimals = optimals,
                                  !.evaluated = @ + 1,
                                  !.read = @ \cup {n},
                                  !.signStatus = countSealer(@, recovered.address)]

\* for n := start; n < end; n++ { ... }: the rounds at the blocks from..to in
\* order (the first half, then the second), up to the first error.
RECURSIVE statusLoop(_, _, _)
statusLoop(acc, from, to) ==
    IF acc.err # "none" \/ from > to THEN acc
    ELSE IF from = to THEN statusRound(acc, from)
    ELSE statusLoop(statusLoop(acc, from, (from + to) \div 2),
                    ((from + to) \div 2) + 1, to)

\* The window of BlockStatus: where the walk starts and the numBlocks it reports.
statusWindow(end) ==
    LET numBlocks == toUint64(WindowSize)
        start == subUint64(end, numBlocks)
    IN  IF ltUint64(end, numBlocks)
        THEN [start |-> toUint64(1), numBlocks |-> subUint64(end, toUint64(1))]
        ELSE [start |-> start, numBlocks |-> numBlocks]

\* BlockStatus(): the answer, with the number of headers the walk evaluated;
\* InturnPercent is the quotient of num by numBlocks.
BlockStatus ==
    LET header == CurrentHeader
        r == snapshot(header.number, header.hash)
    IN  IF header.nil
        THEN [NoStatus EXCEPT !.done = TRUE, !.panic = TRUE,
                              !.err = "nil pointer dereference"]
        ELSE IF r.err # "none" THEN [NoStatus EXCEPT !.done = TRUE, !.err = r.err]
        ELSE LET end == toUint64(header.number)
                 w == statusWindow(end)
                 zero == [NoStatus EXCEPT !.signStatus = [s \in r.snap.signers |-> 0]]
                 acc == IF ltUint64(w.start, end)
                        THEN statusLoop(zero, w.start[4], end[4] - 1) ELSE zero
             IN  IF acc.err # "none"
                 THEN [NoStatus EXCEPT !.done = TRUE, !.err = acc.err, !.read = acc.read]
                 ELSE [acc EXCEPT !.done = TRUE, !.num = 100 * acc.optimals,
                                  !.numBlocks = w.numBlocks]

\* ------------------------------------------------- ConsensusAPI: the calls
QueryClearing(arg, reply) ==
    /\ calls < MaxCalls
    /\ calls' = calls + 1
    /\ answer' = [arg |-> arg, reply |-> reply]
    /\ heap' = [heap EXCEPT ![pbft["E1"].proposals] = EmptyMap]
    /\ step' = [op |-> reply.method, caller |-> 0, engine |-> "none"]
    /\ UNCHANGED <<pbft, call, held, log, status, seal0>>
    /\ UNCHANGED <<importVars, storeVars, sealVars, nodeVars, appVars>>

\* A block query is answered.
Query(arg, reply) ==
    /\ calls < MaxCalls
    /\ calls' = calls + 1
    /\ answer' = [arg |-> arg, reply |-> reply]
    /\ step' = [op |-> reply.method, caller |-> 0, engine |-> "none"]
    /\ UNCHANGED <<heap, pbft, call, held, log, status, seal0>>
    /\ UNCHANGED <<importVars, storeVars, sealVars, nodeVars, appVars>>

\* BlockStatus is answered.
QueryStatus ==
    /\ calls < MaxCalls
    /\ calls' = calls + 1
    /\ status' = BlockStatus
    /\ step' = [op |-> "BlockStatus", caller |-> 0, engine |-> "none"]
    /\ UNCHANGED <<heap, pbft, call, held, log, answer, seal0>>
    /\ UNCHANGED <<importVars, storeVars, sealVars, nodeVars, appVars>>

\* The block numbers and hashes the queries are asked for.
NumberArgs == {NilNumber} \cup {Number(n) : n \in PendingBlockNumber .. MaxChain + 1}
HashArgs == 0 .. headerHash(MaxChain) + 1

\* The block a chain of the given signers holds at number n: sealed in turn,
\* without a vote.
turnHeader(signerSet, n) ==
    [number |-> n, author |-> SortedList(signerSet)[(n % Cardinality(signerSet)) + 1],
     defect |-> "none", difficulty |-> DiffInTurn, vote |-> NoVote]

\* The APIs of the engines run on a chain reader that holds a chain sealed in
\* turn, on a genesis that may name no signers.
InitQuery ==
    /\ ImportAtRest
    /\ \E k \in Addr : \E len \in 0 .. MaxChain :
          /\ chain = [n \in 1 .. len |-> turnHeader(1 .. k, n)]
          /\ genesis \in {1 .. k, {}}
    /\ lost = {}
    /\ cache = << >>
    /\ disk = << >>
    /\ gets = [g \in Getters |-> IdleGet]
    /\ SealerAtRest
    /\ ApiAtRest
    /\ NodeAtRest
    /\ AppAtRest

NextQuery ==
    \/ \E n \in NumberArgs : Query(n, GetBlockStatusByNumber(n))
    \/ \E h \in HashArgs : Query(h, GetBlockStatusByHash(h))
    \/ \E n \in NumberArgs : Query(n, GetValidatorsByNumber(n))
    \/ \E h \in HashArgs : Query(h, GetValidatorsByHash(h))
    \/ QueryStatus

SpecQuery == InitQuery /\ [][NextQuery]_vars

\* The APIs of two engines run on the chain of all addresses, used by
\* concurrent callers.
InitApi ==
    /\ ImportAtRest
    /\ chain = [n \in 1 .. MaxChain |-> turnHeader(Addr, n)]
    /\ genesis = Addr
    /\ lost = {}
    /\ cache = << >>
    /\ disk = << >>
    /\ gets = [g \in Getters |-> IdleGet]
    /\ SealerAtRest
    /\ ApiAtRest
    /\ NodeAtRest
    /\ AppAtRest

NextApi ==
    \/ \E p \in Callers, e \in Engines : StartCall(p, e, "Votes", 0, FALSE)
    \/ \E p \in Callers, e \in Engines, a \in Targets, auth \in BOOLEAN :
          StartCall(p, e, "Vote", a, auth)
    \/ \E p \in Callers, e \in Engines, a \in Targets : StartCall(p, e, "DropVote", a, FALSE)
    \/ \E p \in Callers : RLock(p)
    \/ \E p \in Callers : RangeStep(p)
    \/ \E p \in Callers : VotesReturn(p)
    \/ \E p \in Callers : Lock(p)
    \/ \E p \in Callers : LockDrained(p)
    \/ \E p \in Callers : Write(p)
    \/ \E p \in Callers, a \in Targets, auth \in BOOLEAN : ChangeResult(p, a, auth)
    \/ \E n \in {NilNumber, Number(1)} : Query(n, GetBlockStatusByNumber(n))
    \/ Query(headerHash(1), GetBlockStatusByHash(headerHash(1)))
    \/ \E n \in {NilNumber, Number(1)} : Query(n, GetValidatorsByNumber(n))
    \/ Query(headerHash(1), GetValidatorsByHash(headerHash(1)))
    \/ QueryStatus

SpecApi == InitApi /\ [][NextApi]_vars

\* The proposal calls alone, each caller's call in progress taking its steps.
NextVotes ==
    \/ \E p \in Callers, e \in Engines : StartCall(p, e, "Votes", 0, FALSE)
    \/ \E p \in Callers, e \in Engines, a \in Targets, auth \in BOOLEAN :
          StartCall(p, e, "Vote", a, auth)
    \/ \E p \in Callers, e \in Engines, a \in Targets : StartCall(p, e, "DropVote", a, FALSE)
    \/ \E p \in Callers : RLock(p)
    \/ \E p \in Callers : RangeStep(p)
    \/ \E p \in Callers : VotesReturn(p)
    \/ \E p \in Callers : Lock(p)
    \/ \E p \in Callers : LockDrained(p)
    \/ \E p \in Callers : Write(p)

Proceed(p) ==
    RLock(p) \/ RangeStep(p) \/ VotesReturn(p) \/ Lock(p) \/ LockDrained(p) \/ Write(p)

SpecVotes ==
    InitApi /\ [][NextVotes]_vars /\ \A p \in Callers : WF_vars(Proceed(p))

\* ------------------------------------------------------------ properties
Range(s) == {s[i] : i \in DOMAIN s}

\* The signers whose vote on target t is in the vote list of snapshot s.
VotersOn(s, t) == {v.signer : v \in {w \in Range(s.votes) : w.target = t}}

\* The number of votes on the target of header h once h is applied to s,
\* counted from the vote list: the voters so far, and the author when its vote
\* is one that cast accepts.
CountAfterVote(s, h) ==
    Cardinality(VotersOn(s, h.vote.target)
                \cup (IF /\ h.author \in s.signers
                         /\ (h.vote.target \in s.signers) # h.vote.authorize
                      THEN {h.author} ELSE {}))

Half(s) == Cardinality(s.signers) \div 2

Changed(s, t) == (s.signers \ t.signers) \cup (t.signers \ s.signers)

\* No import is in progress.  A rejected import leaves the head snapshot as it
\* was, so what holds of the snapshot between imports holds during them too.
Idle == lastErr = "none"

\* The sound headers the given authors can offer on top of the head, with the
\* given votes (none while an import is in progress).
SoundHeaders(who, voting) ==
    IF Idle
    THEN [number : {snap.number + 1}, author : who, defect : {"none"},
          difficulty : {DiffInTurn, DiffNoTurn}, vote : voting]
    ELSE {}

\* C1 (as stated): membership flips exactly at the header that first brings the
\* target's tally above half of the signers, so no snapshot holds a tally
\* entry whose count is above floor(len(signers)/2) and whose target has not
\* flipped.
C1_FlipAtFirstMajority ==
    \A t \in DOMAIN snap.tally : snap.tally[t].count <= Half(snap)

\* C1 (amended): an accepted header changes the membership of at most the
\* target of its own vote, and changes it exactly when the tally of that target,
\* counted after the header's cast, is strictly above floor(len(signers)/2) of
\* the snapshot it is applied to; with a count still <= that half nothing flips.
C1_FlipAtPassingVote ==
    snap.number > 0 =>
        /\ Changed(prev, snap) \subseteq {lastHdr.vote.target}
        /\ (Changed(prev, snap) # {})
             <=> (HasVote(lastHdr.vote) /\ CountAfterVote(prev, lastHdr) > Half(prev))

\* A tally of two votes passed at the last accepted header.
C1_Witness ==
    /\ snap.number >= 2
    /\ stable = snap.number
    /\ CountAfterVote(prev, lastHdr) = 2
    /\ Half(prev) = 1

\* C2: cast by an address outside the signers, and cast of a vote that would
\* change nothing (authorize an existing signer, deauthorize a non-signer),
\* returns false and leaves tally and votes as they were.
C2_CastRejects ==
    \A signer \in Addr, target \in Addr, authorize \in BOOLEAN :
        (Idle /\ (signer \notin snap.signers \/ (target \in snap.signers) = authorize)) =>
            LET c == cast(snap, signer, target, authorize, snap.number + 1)
            IN  c.ok = FALSE /\ c.tally = snap.tally /\ c.votes = snap.votes

\* The last accepted header carried a vote that would change nothing, while
\* votes are pending and some address is no signer: the vote left no trace.
C2_Witness ==
    /\ snap.number > 0
    /\ HasVote(lastHdr.vote)
    /\ (lastHdr.vote.target \in prev.signers) = lastHdr.vote.authorize
    /\ snap.votes # << >>
    /\ snap.votes = prev.votes
    /\ snap.signers # Addr

\* C3: while the signer set stays the same N signers, no address seals two of
\* any floor(N/2)+1 consecutive accepted blocks, and a header whose author
\* sealed one of the last floor(N/2) blocks is rejected with RecentlySigned, by
\* the verifier and by apply.
C3_NoRepeat ==
    /\ \A i \in DOMAIN authors, j \in DOMAIN authors :
          (stable < i /\ i < j /\ j - i < Window(Cardinality(snap.signers)))
              => authors[i] # authors[j]
    /\ \A h \in SoundHeaders(snap.signers, VoteSet) :
          (\E i \in DOMAIN authors :
                 /\ i > h.number - Window(Cardinality(snap.signers))
                 /\ authors[i] = h.author)
              => /\ verifyHeader(snap, h) = "RecentlySigned"
                 /\ applyHeader(snap, h).err = "RecentlySigned"

\* Three signers, unchanged since genesis, sealed two blocks and the author of
\* one of them was turned away.
C3_Witness ==
    /\ Len(authors) >= 2
    /\ stable = 0
    /\ Cardinality(snap.signers) = NumAddr
    /\ lastErr = "RecentlySigned"

\* C4: a header that reaches the signer check (sound form and timestamp, known
\* parent, recoverable seal) and whose author is not a signer of the snapshot
\* at its parent fails with UnauthorizedSigner, whatever its difficulty and vote.
C4_UnauthorizedSigner ==
    /\ \A h \in SoundHeaders(Addr \ snap.signers, VoteSet) :
          verifyHeader(snap, h) = "UnauthorizedSigner"
    /\ snap.number > 0 => lastHdr.author \in prev.signers

\* A header of a non-signer was rejected on a chain that already has blocks.
C4_Witness ==
    /\ lastErr = "UnauthorizedSigner"
    /\ snap.number >= 1
    /\ snap.signers # Addr

\* The number of signers that sort before address a.
Rank(s, a) == Cardinality({x \in s.signers : x < a})

\* C5: inturn(n, a) holds exactly for the signer at index n mod |S| of the
\* sorted signer list, so each height has exactly one in-turn signer; accepted
\* blocks carry the in-turn difficulty exactly when that signer sealed them.
C5_Inturn ==
    /\ \A n \in (IF Idle THEN snap.number .. snap.number + NumAddr ELSE {}) :
          LET turn == {a \in Addr : inturn(snap, n, a)}
          IN  /\ turn = {a \in snap.signers :
                            Rank(snap, a) = n % Cardinality(snap.signers)}
              /\ Cardinality(turn) = 1
    /\ snap.number > 0 =>
          ((lastHdr.difficulty = DiffInTurn)
             <=> (Rank(prev, lastHdr.author)
                    = lastHdr.number % Cardinality(prev.signers)))

\* Both kinds of block were accepted under at least two signers: the last one
\* in turn, at an index other than 0.
C5_Witness ==
    /\ snap.number >= 2
    /\ Cardinality(prev.signers) >= 2
    /\ lastHdr.difficulty = DiffInTurn
    /\ Rank(prev, lastHdr.author) > 0

\* C6: a snapshot holds no vote cast by an address that is not a signer, every
\* tally count is the number of votes on its target in the vote list, and a
\* tally entry always asks for the change of membership its target can still
\* make: when apply removes X, X's votes are gone, the counts are without them
\* and the entry targeting X is deleted.
C6_RemovalPurges ==
    /\ \A v \in Range(snap.votes) : v.signer \in snap.signers
    /\ \A t \in Addr :
          IF t \in DOMAIN snap.tally
          THEN /\ snap.tally[t].count = Cardinality(VotersOn(snap, t))
               /\ snap.tally[t].count > 0
               /\ snap.tally[t].authorize = (t \notin snap.signers)
          ELSE VotersOn(snap, t) = {}
    /\ \A x \in prev.signers \ snap.signers :
          /\ x \notin DOMAIN snap.tally
          /\ \A v \in Range(snap.votes) : v.signer # x /\ v.target # x

\* The last accepted header removed a signer that had a vote on another
\* address in the list.
C6_Witness ==
    \E x \in prev.signers \ snap.signers :
        \E v \in Range(prev.votes) : v.signer = x /\ v.target # x

\* C8: the signer set of the head snapshot is never empty, and a header whose
\* vote would leave no signer, sound in everything else, fails with InvalidVote.
C8_SignersNeverEmpty ==
    /\ snap.signers # {}
    /\ \A h \in SoundHeaders(snap.signers, VoteSet \ {NoVote}) :
          (/\ ~recentlySigned(snap, h.author, h.number)
           /\ h.difficulty = calcDifficulty(snap, h.number, h.author)
           /\ applyHeader(snap, h).snap.signers = {})
              => verifyHeader(snap, h) = "InvalidVote"

\* The vote of the only signer against itself was rejected.
C8_Witness ==
    /\ lastErr = "InvalidVote"
    /\ Cardinality(snap.signers) = 1

\* C9: get calls for the same block that succeed return the same snapshot (the
\* signers, recent and tally of the block, and its votes), whichever of the
\* cache, a checkpoint or a replay of the headers each of them came from, and
\* the cache holds that snapshot for as long as it holds the block.
C9_GetsAgree ==
    \A g \in Getters :
        gets[g].pc = "done" =>
            /\ gets[g].result.number = gets[g].target
            /\ gets[g].target \in DOMAIN cache => cache[gets[g].target] = gets[g].result
            /\ \A o \in Getters :
                  (gets[o].pc = "done" /\ gets[o].target = gets[g].target)
                      => gets[o].result = gets[g].result

\* Two calls for the last block succeeded, one by replaying every header from
\* genesis and one from a snapshot it found on the way.
C9_Witness ==
    \E g \in Getters, o \in Getters :
        /\ gets[g].pc = "done" /\ gets[o].pc = "done"
        /\ gets[g].target = MaxChain /\ gets[o].target = MaxChain
        /\ gets[g].cur = 0
        /\ gets[o].cur > 0
        /\ gets[g].result.votes # << >>

\* C10: no seal is broadcast for a height that is already superseded: every
\* seal was sent while the head was still below its height, and a task that was
\* cancelled before its broadcast step sends nothing and ends as an abort, never
\* as an error.
C10_NoSupersededSeal ==
    /\ \A i \in DOMAIN emitted : emitted[i].head < emitted[i].height
    /\ sealer.cancelled =>
          /\ sealer.pc \in {"waiting", "signed", "aborted"}
          /\ sealer.err = "none"
          /\ \A i \in DOMAIN emitted : emitted[i].height # sealer.height

\* A task that had waited out an out-of-turn delay and signed its block was
\* cancelled by a competing block and ended as an abort, after an earlier seal
\* of the node had been sent.
C10_Witness ==
    /\ sealer.pc = "aborted"
    /\ sealer.remaining = 0
    /\ snap.number >= sealer.height
    /\ emitted # << >>

\* The block a chain of all addresses holds at number n when the blocks up to
\* number turns are sealed in turn and the later ones out of turn, by the
\* signer next after the one in turn.
statusHeader(n, turns) ==
    IF n <= turns THEN turnHeader(Addr, n)
    ELSE [number |-> n, author |-> ((n + 1) % NumAddr) + 1, defect |-> "none",
          difficulty |-> DiffNoTurn, vote |-> NoVote]

\* BlockStatus runs once on a chain of any length up to MaxHead, whose genesis
\* header's seal recovers to an address or to none; the chain reader may have
\* lost the first block, the parent of the head or the head itself, and the
\* store may fail for every snapshot; the validators at the head may be asked
\* for as well.
InitStatus ==
    /\ ImportAtRest
    /\ \E end \in 0 .. MaxHead : \E turns \in 0 .. end :
          /\ chain = [n \in 1 .. end |-> statusHeader(n, turns)]
          /\ lost \in {{}, {end}} \cup {{n} : n \in {1, end - 1} \cap (1 .. end - 1)}
    /\ genesis \in {Addr, {}}
    /\ cache = << >>
    /\ disk = << >>
    /\ gets = [g \in Getters |-> IdleGet]
    /\ SealerAtRest
    /\ heap = [r \in Refs |-> EmptyMap]
    /\ pbft = [e \in Engines |-> NewPbft(e)]
    /\ call = [p \in Callers |-> IdleCall]
    /\ held = [p \in Callers |-> NoRef]
    /\ log = [e \in Engines |-> << >>]
    /\ step = NoStep
    /\ calls = MaxCalls - 1
    /\ answer = NoAnswer
    /\ status = NoStatus
    /\ seal0 \in [author : {0, 1}, difficulty : {DiffInTurn, DiffNoTurn}]
    /\ NodeAtRest
    /\ AppAtRest

NextStatus ==
    \/ QueryStatus
    \/ Query(NilNumber, GetValidatorsByNumber(NilNumber))

SpecStatus == InitStatus /\ [][NextStatus]_vars

\* ------------------------------------------------------ Filestorm service
\* Engine(): the engine of the service.
Engine == made[fst.engine]

\* s.engine.Author(block.Header()): an engine of proof of authority recovers the
\* author from the seal and fails without one; the others read the author field.
engineAuthor(block) ==
    IF Engine.kind \in PoA /\ ~block.sealed
    THEN [err |-> "MissingSignature", address |-> NoAddress]
    ELSE [err |-> "none", address |-> block.author]

\* A test that looks at the stormbase only.
isLocalBlockNoLocals(block) ==
    LET a == engineAuthor(block)
    IN  a.err = "none" /\ a.address = fst.stormbase

isLocalBlock(block) ==
    LET a == engineAuthor(block)
    IN  IF a.err # "none" THEN FALSE
        ELSE IF a.address = fst.stormbase THEN TRUE
        ELSE a.address \in fst.config.locals

\* A test that preserves the local blocks under every engine.
shouldPreserveLocal(block) == isLocalBlock(block)

shouldPreserve(block) ==
    IF Engine.kind = "clique" THEN FALSE
    ELSE IF Engine.kind = "pbft" THEN FALSE
    ELSE isLocalBlock(block)

\* A lookup that answers with the first wallet.
FindFirst(wallets, eb) == IF wallets # << >> THEN 1 ELSE 0

\* s.accountManager.Find(accounts.Account{Address: eb}): the first wallet that
\* holds the account, 0 when none does.
Find(wallets, eb) ==
    LET holding == {i \in DOMAIN wallets : \E j \in DOMAIN wallets[i] : wallets[i][j] = eb}
    IN  IF holding = {} THEN 0 ELSE CHOOSE i \in holding : \A k \in holding : i <= k

\* wallets[0].Accounts()[0].Address, NoAddress when there is none.
firstAccount(wallets) ==
    IF Len(wallets) > 0 /\ Len(wallets[1]) > 0 THEN wallets[1][1] ELSE NoAddress

\* A call of caller p returns with record r.
Return(p, r) ==
    /\ ret' = r
    /\ task' = [task EXCEPT ![p] = IdleTask]

\* A call of caller p starts.
Begin(p) ==
    /\ task[p].pc = "idle"
    /\ ops < MaxOps
    /\ ops' = ops + 1

\* Stormbase(), up to the end of its read section: it returns the stormbase
\* it read when that is set, and goes on to the wallets otherwise.
StormbaseRead(p) ==
    /\ Begin(p)
    /\ IF fst.stormbase # NoAddress
       THEN Return(p, [NoRet EXCEPT !.op = "Stormbase", !.eb = fst.stormbase])
       ELSE /\ task' = [task EXCEPT ![p] = [IdleTask EXCEPT !.op = "Stormbase", !.pc = "auto"]]
            /\ UNCHANGED ret
    /\ UNCHANGED <<fst, made, miner, explicit>>
    /\ UNCHANGED <<importVars, storeVars, sealVars, apiVars, appVars>>

\* The rest of Stormbase(), run by itself or inside StartMining: with a first
\* account it stores that account as the stormbase, in its write section, and
\* returns it; without one it fails.
StormbaseAuto(p) ==
    /\ task[p].pc = "auto"
    /\ LET a == firstAccount(fst.wallets)
           t == task[p].touched \cup (IF a # fst.stormbase THEN {"stormbase"} ELSE {})
       IN  IF a # NoAddress
           THEN /\ fst' = [fst EXCEPT !.stormbase = a]
                /\ IF task[p].op = "Stormbase"
                   THEN Return(p, [NoRet EXCEPT !.op = "Stormbase", !.eb = a, !.touched = t])
                   ELSE /\ task' = [task EXCEPT ![p].pc = "sign", ![p].eb = a,
                                                ![p].touched = t]
                        /\ UNCHANGED ret
           ELSE /\ UNCHANGED fst
                /\ IF task[p].op = "Stormbase"
                   THEN Return(p, [NoRet EXCEPT !.op = "Stormbase",
                                                !.err = "stormbase must be explicitly specified"])
                   ELSE Return(p, [NoRet EXCEPT !.op = "StartMining",
                                                !.err = "stormbase missing",
                                                !.threads = task[p].threads,
                                                !.touched = task[p].touched])
    /\ UNCHANGED <<made, miner, ops, explicit>>
    /\ UNCHANGED <<importVars, storeVars, sealVars, apiVars, appVars>>

\* StartMining(threads), up to the read section of the Stormbase() it calls:
\* the thread count of a threaded engine is set first; when the miner runs
\* already the call returns nil; otherwise the pool price is set and the
\* stormbase is read.
StartMiningBegin(p, threads) ==
    /\ Begin(p)
    /\ LET e == IF threaded(Engine)
                THEN SetThreads(Engine, IF threads = 0 THEN -1 ELSE threads)
                ELSE Engine
           t == IF e.threads # Engine.threads THEN {"threads"} ELSE {}
       IN  /\ made' = [made EXCEPT ![fst.engine] = e]
           /\ IF miner.mining
              THEN /\ Return(p, [NoRet EXCEPT !.op = "StartMining", !.threads = threads,
                                              !.wasMining = TRUE, !.touched = t])
                   /\ UNCHANGED fst
              ELSE /\ fst' = [fst EXCEPT !.poolPrice = fst.gasPrice]
                   /\ task' = [task EXCEPT ![p] =
                                 [op |-> "StartMining",
                                  pc |-> IF fst.stormbase # NoAddress THEN "sign" ELSE "auto",
                                  threads |-> threads, eb |-> fst.stormbase,
                                  touched |-> t \cup (IF fst.poolPrice # fst.gasPrice
                                                      THEN {"poolPrice"} ELSE {})]]
                   /\ UNCHANGED ret
    /\ UNCHANGED <<miner, explicit>>
    /\ UNCHANGED <<importVars, storeVars, sealVars, apiVars, appVars>>

\* A StartMining that accepts transactions before it has looked for the signer.
StartMiningSignEager(p) ==
    /\ task[p].pc = "sign"
    /\ LET eb == task[p].eb
           wallet == Find(fst.wallets, eb)
           r == [NoRet EXCEPT !.op = "StartMining", !.eb = eb, !.threads = task[p].threads]
           t == task[p].touched \cup (IF fst.acceptTxs # 1 THEN {"acceptTxs"} ELSE {})
       IN  /\ fst' = [fst EXCEPT !.acceptTxs = 1]
           /\ IF Engine.kind \in PoA /\ wallet = 0
              THEN /\ Return(p, [r EXCEPT !.err = "signer missing", !.touched = t])
                   /\ UNCHANGED <<made, miner>>
              ELSE /\ made' = IF Engine.kind \in PoA
                              THEN [made EXCEPT ![fst.engine].signer = eb] ELSE made
                   /\ miner' = [miner EXCEPT !.pending = Append(@, eb)]
                   /\ Return(p, [r EXCEPT !.started = eb,
                                          !.touched = t \cup {"miner"} \cup
                                             (IF Engine.kind \in PoA THEN {"signer"} ELSE {})])
    /\ UNCHANGED <<ops, explicit>>
    /\ UNCHANGED <<importVars, storeVars, sealVars, apiVars, appVars>>

\* The rest of StartMining, with the stormbase eb resolved: an engine of proof
\* of authority is authorized with the wallet that holds eb, and the call fails
\* when there is none; then transactions are accepted and the miner is started
\* in a goroutine of its own.
StartMiningSign(p) ==
    /\ task[p].pc = "sign"
    /\ LET eb == task[p].eb
           wallet == Find(fst.wallets, eb)
           r == [NoRet EXCEPT !.op = "StartMining", !.eb = eb, !.threads = task[p].threads]
       IN  IF Engine.kind \in PoA /\ wallet = 0
           THEN /\ Return(p, [r EXCEPT !.err = "signer missing", !.touched = task[p].touched])
                /\ UNCHANGED <<fst, made, miner>>
           ELSE /\ made' = IF Engine.kind \in PoA
                           THEN [made EXCEPT ![fst.engine].signer = eb] ELSE made
                /\ fst' = [fst EXCEPT !.acceptTxs = 1]
                /\ miner' = [miner EXCEPT !.pending = Append(@, eb)]
                /\ Return(p, [r EXCEPT !.started = eb,
                                       !.touched = task[p].touched \cup {"miner"} \cup
                                          (IF Engine.kind \in PoA THEN {"signer"} ELSE {}) \cup
                                          (IF fst.acceptTxs # 1 THEN {"acceptTxs"} ELSE {})])
    /\ UNCHANGED <<ops, explicit>>
    /\ UNCHANGED <<importVars, storeVars, sealVars, apiVars, appVars>>

\* go s.miner.Start(eb): the goroutine runs; the miner takes the coinbase and
\* mines.
MinerStart ==
    /\ miner.pending # << >>
    /\ miner' = [mining |-> TRUE, coinbase |-> Head(miner.pending),
                 pending |-> Tail(miner.pending)]
    /\ UNCHANGED <<fst, made, task, ret, ops, explicit>>
    /\ UNCHANGED <<importVars, storeVars, sealVars, apiVars, appVars>>

StopMining(p) ==
    /\ Begin(p)
    /\ made' = [made EXCEPT ![fst.engine] =
                   IF threaded(Engine) THEN SetThreads(Engine, -1) ELSE Engine]
    /\ miner' = [miner EXCEPT !.mining = FALSE]
    /\ Return(p, [NoRet EXCEPT !.op = "StopMining"])
    /\ UNCHANGED <<fst, explicit>>
    /\ UNCHANGED <<importVars, storeVars, sealVars, apiVars, appVars>>

SetEtherbase(p, stormbase) ==
    /\ Begin(p)
    /\ fst' = [fst EXCEPT !.stormbase = stormbase]
    /\ miner' = [miner EXCEPT !.coinbase = stormbase]
    /\ explicit' = stormbase
    /\ Return(p, [NoRet EXCEPT !.op = "SetEtherbase", !.eb = stormbase])
    /\ UNCHANGED made
    /\ UNCHANGED <<importVars, storeVars, sealVars, apiVars, appVars>>

\* APIs(): the list is made from the APIs of the engine; nothing is written.
APIs(p) ==
    /\ Begin(p)
    /\ Return(p, [NoRet EXCEPT !.op = "APIs"])
    /\ UNCHANGED <<fst, made, miner, explicit>>
    /\ UNCHANGED <<importVars, storeVars, sealVars, apiVars, appVars>>

\* The chain or the miner asks whether a block is local, or is to be preserved;
\* eb records the stormbase the test read.
AskLocal(p, block) ==
    /\ Begin(p)
    /\ Return(p, [NoRet EXCEPT !.op = "isLocalBlock", !.block = block,
                               !.eb = fst.stormbase, !.result = isLocalBlock(block)])
    /\ UNCHANGED <<fst, made, miner, explicit>>
    /\ UNCHANGED <<importVars, storeVars, sealVars, apiVars, appVars>>

AskPreserve(p, block) ==
    /\ Begin(p)
    /\ Return(p, [NoRet EXCEPT !.op = "shouldPreserve", !.block = block,
                               !.eb = fst.stormbase, !.result = shouldPreserve(block)])
    /\ UNCHANGED <<fst, made, miner, explicit>>
    /\ UNCHANGED <<importVars, storeVars, sealVars, apiVars, appVars>>

\* The service is constructed from any configuration, over any of the wallet
\* lists, with the protocol manager accepting transactions or not.
InitNode ==
    /\ ImportAtRest
    /\ StoreAtRest
    /\ SealerAtRest
    /\ ApiAtRest
    /\ \E config \in Configs, wallets \in WalletLists, acceptTxs \in {0, 1} :
          NewServiceAt(config, wallets, acceptTxs)
    /\ AppAtRest

NextNode ==
    \/ \E p \in Callers : StormbaseRead(p)
    \/ \E p \in Callers : StormbaseAuto(p)
    \/ \E p \in Callers, threads \in {0, 1} : StartMiningBegin(p, threads)
    \/ \E p \in Callers : StartMiningSign(p)
    \/ MinerStart
    \/ \E p \in Callers : StopMining(p)
    \/ \E p \in Callers, a \in Accounts \cup {NoAddress} : SetEtherbase(p, a)
    \/ \E p \in Callers : APIs(p)
    \/ \E p \in Callers, b \in Blocks : AskLocal(p, b)
    \/ \E p \in Callers, b \in Blocks : AskPreserve(p, b)

SpecNode == InitNode /\ [][NextNode]_vars

\* ---------------------------------------------------------- AppChainBase
\* The outcome of a call on contract c: the call reverted and c is as before,
\* or it returned and left the contract app, having recorded a flush round or
\* not.
Reverted(c) == [reverted |-> TRUE, recorded |-> FALSE, app |-> c]
Returned(c) == [reverted |-> FALSE, recorded |-> FALSE, app |-> c]

updateChainName(c, sender, name) ==
    IF c.admins[sender] # 1 THEN Reverted(c)
    ELSE Returned([c EXCEPT !.chainName = name])

updateFlushEpoch(c, sender, newEpoch) ==
    IF c.admins[sender] # 1 THEN Reverted(c)
    ELSE IF ~(newEpoch >= 360) THEN Reverted(c)
    ELSE Returned([c EXCEPT !.flushEpoch = newEpoch])

addAdmin(c, sender, admin) ==
    IF c.admins[sender] # 1 THEN Reverted(c)
    ELSE Returned([c EXCEPT !.admins[admin] = 1])

\* A removal that lets an admin remove itself.
removeAdminSelf(c, sender, admin) ==
    IF c.admins[sender] # 1 THEN Reverted(c)
    ELSE Returned([c EXCEPT !.admins[admin] = 0])

removeAdmin(c, sender, admin) ==
    IF c.admins[sender] # 1 THEN Reverted(c)
    ELSE IF ~(admin # sender) THEN Reverted(c)
    ELSE Returned([c EXCEPT !.admins[admin] = 0])

\* balance += msg.value, in the contract's word; the value arrives at the
\* address.
addFund(c, value) ==
    Returned([c EXCEPT !.balance = (@ + value) % Word, !.ether = @ + value])

\* recv.transfer(amount) sends ether the address holds, and reverts the call
\* when it holds less.
withdrawFund(c, sender, recv, amount) ==
    IF c.admins[sender] # 1 THEN Reverted(c)
    ELSE IF ~(amount <= c.balance) THEN Reverted(c)
    ELSE IF c.ether < amount THEN Reverted(c)
    ELSE Returned([c EXCEPT !.balance = (@ - amount) % Word, !.ether = @ - amount])

\* The round flush records: flushId is one more than the index of the last
\* entry of flushList; balance -= FLUSH_AMOUNT is in the contract's word, and
\* the transfer to the black hole address reverts the call when the address
\* holds less than FLUSH_AMOUNT.
record(c, sender, current_validators, blockNumber, blockHash) ==
    LET flushId == (Len(c.flushList) - 1) + 1
    IN  IF c.ether < FlushAmount THEN Reverted(c)
        ELSE [reverted |-> FALSE, recorded |-> TRUE,
              app |-> [c EXCEPT
                        !.flushMapping = Append(@, [flushId |-> flushId,
                                                    validator |-> sender,
                                                    blockNumber |-> blockNumber,
                                                    blockHash |-> blockHash]),
                        !.flushValidatorList = Append(@, current_validators),
                        !.flushList = Append(@, flushId),
                        !.balance = (@ - FlushAmount) % Word,
                        !.ether = @ - FlushAmount,
                        !.lastFlushedBlock = blockNumber]]

\* A flush that any sender can make while the latest round has validators.
flushByAnyone(c, sender, current_validators, blockNumber, blockHash) ==
    IF ~(c.balance > 0) THEN Reverted(c)
    ELSE IF (c.lastFlushedBlock + c.flushEpoch) % Word # blockNumber THEN Reverted(c)
    ELSE IF c.flushValidatorList[Len(c.flushList)] # << >>
         THEN record(c, sender, current_validators, blockNumber, blockHash)
         ELSE Returned(c)

\* flush: the loop runs over the validators of the latest round, and its body
\* records the round at the first of them for which the sender is that
\* validator or an admin; after a loop that recorded nothing the call returns.
flush(c, sender, current_validators, blockNumber, blockHash) ==
    IF ~(c.balance > 0) THEN Reverted(c)
    ELSE IF (c.lastFlushedBlock + c.flushEpoch) % Word # blockNumber THEN Reverted(c)
    ELSE LET list == c.flushValidatorList[(Len(c.flushList) - 1) + 1]
         IN  IF \E i \in DOMAIN list : list[i] = sender \/ c.admins[sender] = 1
             THEN record(c, sender, current_validators, blockNumber, blockHash)
             ELSE Returned(c)

superflush(c, sender, blockNumber, blockHash) ==
    IF ~(c.balance > 0) THEN Reverted(c)
    ELSE IF c.admins[sender] # 1 THEN Reverted(c)
    ELSE flush(c, sender, c.flushValidatorList[(Len(c.flushList) - 1) + 1],
               blockNumber, blockHash)

\* A setter that stores the info again.
setGenesisInfoAgain(c, sender, info) ==
    IF c.admins[sender] # 1 THEN Reverted(c)
    ELSE Returned([c EXCEPT !.genesisInfo = info, !.genesisSet = TRUE])

setGenesisInfo(c, sender, info) ==
    IF c.admins[sender] # 1 THEN Reverted(c)
    ELSE IF ~(c.genesisSet = FALSE) THEN Reverted(c)
    ELSE Returned([c EXCEPT !.genesisInfo = info, !.genesisSet = TRUE])

getGenesisInfo == app.genesisInfo

\* A transaction with outcome r is executed: a reverted one leaves the
\* contract as it was.
Execute(op, sender, blockNumber, info, r) ==
    /\ txs < MaxTx
    /\ txs' = txs + 1
    /\ app' = r.app
    /\ tx' = [op |-> op, sender |-> sender, reverted |-> r.reverted,
              recorded |-> r.recorded, blockNumber |-> blockNumber,
              genesis |-> info, before |-> app]
    /\ UNCHANGED <<importVars, storeVars, sealVars, apiVars, nodeVars>>

UpdateChainName(sender, name) ==
    /\ Execute("updateChainName", sender, 0, "", updateChainName(app, sender, name))
    /\ UNCHANGED ledger

UpdateFlushEpoch(sender, newEpoch) ==
    /\ Execute("updateFlushEpoch", sender, 0, "", updateFlushEpoch(app, sender, newEpoch))
    /\ UNCHANGED ledger

AddAdmin(sender, admin) ==
    /\ Execute("addAdmin", sender, 0, "", addAdmin(app, sender, admin))
    /\ UNCHANGED ledger

RemoveAdmin(sender, admin) ==
    /\ Execute("removeAdmin", sender, 0, "", removeAdmin(app, sender, admin))
    /\ UNCHANGED ledger

AddFund(sender, value) ==
    /\ Execute("addFund", sender, 0, "", addFund(app, value))
    /\ ledger' = [ledger EXCEPT !.added = @ + value]

WithdrawFund(sender, recv, amount) ==
    /\ Execute("withdrawFund", sender, 0, "", withdrawFund(app, sender, recv, amount))
    /\ ledger' = IF withdrawFund(app, sender, recv, amount).reverted THEN ledger
                 ELSE [ledger EXCEPT !.withdrawn = @ + amount]

Flush(sender, current_validators, blockNumber) ==
    /\ Execute("flush", sender, blockNumber, "",
               flush(app, sender, current_validators, blockNumber, "hash"))
    /\ UNCHANGED ledger

Superflush(sender, blockNumber) ==
    /\ Execute("superflush", sender, blockNumber, "",
               superflush(app, sender, blockNumber, "hash"))
    /\ UNCHANGED ledger

SetGenesisInfo(sender, info) ==
    /\ Execute("setGenesisInfo", sender, 0, info, setGenesisInfo(app, sender, info))
    /\ ledger' = IF setGenesisInfo(app, sender, info).reverted \/ ledger.stored THEN ledger
                 ELSE [ledger EXCEPT !.stored = TRUE, !.first = info]

\* The block numbers a flush is tried with: the one due and the one after it.
DueBlocks ==
    {(app.lastFlushedBlock + app.flushEpoch) % Word,
     (app.lastFlushedBlock + app.flushEpoch + 1) % Word}

\* The contract is created by address 1 with the required amount or more, with
\* any of the validator lists, at an address that held no ether or some.
InitApp ==
    /\ ImportAtRest
    /\ StoreAtRest
    /\ SealerAtRest
    /\ ApiAtRest
    /\ NodeAtRest
    /\ \E value \in {Required, Required + 1}, flushNumber \in {0, 2},
          initial_validators \in ValidatorLists, extra \in {0, FlushAmount} :
          /\ app = constructed(1, value, flushNumber, initial_validators, extra)
          /\ ledger = NewLedger(value)
    /\ tx = NoTx(app)
    /\ txs = 0

NextApp ==
    \/ \E sender \in Addr : UpdateChainName(sender, "renamed")
    \/ \E sender \in Addr, newEpoch \in {359, 360} : UpdateFlushEpoch(sender, newEpoch)
    \/ \E sender \in Addr, admin \in Addr : AddAdmin(sender, admin)
    \/ \E sender \in Addr, admin \in Addr : RemoveAdmin(sender, admin)
    \/ \E sender \in Addr, value \in {0, 1} : AddFund(sender, value)
    \/ \E sender \in Addr, amount \in {1, Required} : WithdrawFund(sender, sender, amount)
    \/ \E sender \in Addr, current_validators \in ValidatorLists, blockNumber \in DueBlocks :
          Flush(sender, current_validators, blockNumber)
    \/ \E sender \in Addr, blockNumber \in DueBlocks : Superflush(sender, blockNumber)
    \/ \E sender \in Addr, info \in {"", "genesis"} : SetGenesisInfo(sender, info)

SpecApp == InitApp /\ [][NextApp]_vars

\* ------------------------------------------------ properties of the API
ByNumber == {"GetValidatorsByNumber", "GetBlockStatusByNumber"}
ByHash == {"GetValidatorsByHash", "GetBlockStatusByHash"}

\* The chain holds no block of the hash, or of the explicit number, the last
\* query asked for.
AskedUnknown ==
    \/ /\ answer.reply.method \in ByHash
       /\ \A n \in 0 .. Len(chain) : headerHash(n) # answer.arg
    \/ /\ answer.reply.method \in ByNumber
       /\ ~answer.arg.nil
       /\ answer.arg.n # LatestBlockNumber
       /\ answer.arg.n \notin 0 .. Len(chain)

\* C11: a block query for a hash or a number the chain reader has no header of
\* answers UnknownBlock with a nil result, and asks for no snapshot.
C11_UnknownBlock ==
    AskedUnknown =>
       /\ answer.reply.err = "UnknownBlock"
       /\ answer.reply.result.nil
       /\ answer.reply.asked = << >>

\* GetValidatorsByHash was asked for a hash of no block, next to a chain of
\* two blocks, and answered UnknownBlock.
C11_Witness ==
    /\ answer.reply.method = "GetValidatorsByHash"
    /\ AskedUnknown
    /\ Len(chain) = MaxChain
    /\ answer.reply.err = "UnknownBlock"

\* The last query was by number, and n is the block it has to answer for: the
\* head for an absent or "latest" number, the block of an explicit number.
AnswersFor(n) ==
    /\ answer.reply.method \in ByNumber
    /\ \/ /\ answer.arg.nil \/ answer.arg.n = LatestBlockNumber
          /\ n = Len(chain)
       \/ /\ ~answer.arg.nil
          /\ answer.arg.n = n

\* C12: a query by number answers from the snapshot at exactly the (number,
\* hash) of the head when the number is absent or "latest", and of the block of
\* that number when it is explicit.
C12_ByNumber ==
    \A n \in 0 .. Len(chain) :
       AnswersFor(n) =>
          /\ answer.reply.asked = << <<n, headerHash(n)>> >>
          /\ answer.reply.err = IF genesis = {} THEN "GenesisMismatch" ELSE "none"
          /\ genesis # {} =>
               /\ ~answer.reply.result.nil
               /\ IF answer.reply.method = "GetValidatorsByNumber"
                  THEN answer.reply.result.value = SortedList(genesis)
                  ELSE /\ answer.reply.result.value.number = n
                       /\ answer.reply.result.value.signers = genesis

\* GetValidatorsByNumber was asked for "latest" on a chain of two blocks and
\* answered the signers.
C12_Witness ==
    /\ answer.reply.method = "GetValidatorsByNumber"
    /\ ~answer.arg.nil
    /\ answer.arg.n = LatestBlockNumber
    /\ Len(chain) = MaxChain
    /\ answer.reply.err = "none"
    /\ answer.reply.asked = << <<MaxChain, headerHash(MaxChain)>> >>

\* The table the writes of a log leave: each address whose last write is a
\* Vote maps to the value of that Vote.
LastOn(l, a) ==
    IF \E i \in DOMAIN l : l[i].address = a
    THEN CHOOSE i \in DOMAIN l :
            l[i].address = a /\ \A j \in DOMAIN l : l[j].address = a => j <= i
    ELSE 0

Expected(l) ==
    [a \in {x \in Targets : LastOn(l, x) # 0 /\ l[LastOn(l, x)].method = "Vote"} |->
        l[LastOn(l, a)].auth]

\* The proposals table of an engine.
Table(e) == heap[pbft[e].proposals]

\* C13: the table of an engine, and the map a Votes call on it returns, hold
\* for each address the value of its most recent Vote that no DropVote of the
\* address follows, and nothing else.
C13_VotesResult ==
    /\ \A e \in Engines : Table(e) = Expected(log[e])
    /\ step.op = "VotesReturn" => heap[held[step.caller]] = Expected(log[step.engine])

\* Votes returned the table after a Vote on an address overwrote an earlier
\* Vote on it with the other value.
C13_Witness ==
    /\ step.op = "VotesReturn"
    /\ Len(log[step.engine]) = 2
    /\ log[step.engine][1].method = "Vote"
    /\ log[step.engine][2].method = "Vote"
    /\ log[step.engine][1].address = log[step.engine][2].address
    /\ log[step.engine][1].auth # log[step.engine][2].auth
    /\ DOMAIN heap[held[step.caller]] = {log[step.engine][1].address}

\* C14: a change a caller makes to a map that Votes returned changes no
\* engine's table, and a write of Vote or DropVote changes no map that Votes
\* returned earlier.
C14_VotesCopy ==
    [][/\ step'.op = "change" => \A e \in Engines : Table(e)' = Table(e)
       /\ step'.op = "write" =>
             \A p \in Callers : held[p] # NoRef => heap'[held[p]] = heap[held[p]]]_vars

\* A caller changed the map Votes had returned to it, which now differs from
\* the table it was copied from.
C14_Witness ==
    /\ step.op = "change"
    /\ \E e \in Engines :
          /\ log[e] # << >>
          /\ Table(e) # EmptyMap
          /\ heap[held[step.caller]] # Table(e)
          /\ DOMAIN heap[held[step.caller]] = Targets

\* The callers inside the table of an engine.
Writers(e) == {p \in Callers : call[p].engine = e /\ call[p].pc = "write"}
Readers(e) == {p \in Callers : call[p].engine = e /\ call[p].pc = "range"}

\* C15: at most one writer is inside the table of an engine, no reader is
\* inside with a writer, and the map Votes returns is the table as it stood
\* after some number of the writes.
C15_ReadersWriters ==
    /\ \A e \in Engines :
          /\ Cardinality(Writers(e)) <= 1
          /\ Writers(e) # {} => Readers(e) = {}
    /\ step.op = "VotesReturn" =>
          \E i \in 0 .. Len(log[step.engine]) :
             heap[held[step.caller]] = Expected(SubSeq(log[step.engine], 1, i))

\* Two readers are inside the table of one engine together, after a write.
C15_Witness ==
    \E e \in Engines : Cardinality(Readers(e)) = 2 /\ log[e] # << >>

ProposalSteps == {"call", "RLock", "range", "VotesReturn", "Lock", "write"}
ReadSteps == ByNumber \cup ByHash \cup {"BlockStatus", "RLock", "range", "VotesReturn"}

\* The last block query answered what the chain alone determines: the signers
\* of the genesis block, with no vote cast.
ChainAnswer ==
    /\ answer.reply.err = "none"
    /\ ~answer.reply.result.nil
    /\ IF answer.reply.method \in {"GetValidatorsByNumber", "GetValidatorsByHash"}
       THEN answer.reply.result.value = SortedList(genesis)
       ELSE /\ answer.reply.result.value.signers = genesis
            /\ answer.reply.result.value.number = answer.reply.asked[1][1]
            /\ answer.reply.result.value.tally = << >>
            /\ answer.reply.result.value.votes = << >>

\* C16: whatever Vote, DropVote and Votes calls came before it, a block query
\* answers the signers and the snapshot the chain determines, and no step of
\* these calls changes the chain; a step of a read query changes no engine's
\* table and not the chain.
C16_NoSideEffect ==
    /\ [](answer.reply.method \in ByNumber \cup ByHash => ChainAnswer)
    /\ [][/\ step'.op \in ProposalSteps =>
                <<chain, genesis, lost>>' = <<chain, genesis, lost>>
          /\ step'.op \in ReadSteps =>
                /\ \A e \in Engines : Table(e)' = Table(e)
                /\ <<chain, genesis, lost>>' = <<chain, genesis, lost>>]_vars

\* A block query was answered while an engine held a proposal.
C16_Witness ==
    /\ step.op \in ByNumber \cup ByHash
    /\ answer.reply.err = "none"
    /\ \E e \in Engines : Table(e) # EmptyMap

\* C17: a write through the API of one engine leaves the table of every other
\* engine as it was.
C17_Independent ==
    [][step'.op = "write" =>
          \A e \in Engines \ {step'.engine} : Table(e)' = Table(e)]_vars

\* A Vote through the API of the second engine was written while the first
\* engine held a proposal of its own.
C17_Witness ==
    /\ step.op = "write"
    /\ step.engine = "E2"
    /\ Table("E1") # EmptyMap
    /\ Table("E2") # EmptyMap
    /\ Table("E1") # Table("E2")

\* C18: every call of Votes, Vote or DropVote returns, and once all calls have
\* returned every lock is free.
C18_CallsReturn ==
    /\ \A p \in Callers : (call[p].pc # "idle") ~> (call[p].pc = "idle")
    /\ []((\A p \in Callers : call[p].pc = "idle") =>
             \A e \in Engines : pbft[e].lock = FreeLock)

\* A call waits for the lock of an engine that another caller holds as writer,
\* after an earlier write.
C18_Witness ==
    \E p \in Callers, q \in Callers :
       /\ p # q
       /\ call[p].pc \in {"rlock", "lock"}
       /\ call[q].pc = "write"
       /\ call[q].engine = call[p].engine
       /\ pbft[call[p].engine].lock.w = q
       /\ log[call[p].engine] # << >>

\* The smaller of two numbers.
Min(a, b) == IF a < b THEN a ELSE b

\* C19: the numBlocks that BlockStatus reports is at most the smaller of the
\* window size and the head number, for every head number from 0 on.
C19_WindowClamped ==
    (status.done /\ status.err = "none") =>
       ~ltUint64(toUint64(Min(WindowSize, Len(chain))), status.numBlocks)

\* C20: BlockStatus reports numBlocks as the number m of headers it evaluated
\* and inturnPercent as 100 * k / m for the k of them of in-turn difficulty, and
\* on a chain whose head is block 64 it evaluates 63 headers.
C20_InturnPercent ==
    (status.done /\ status.err = "none") =>
       /\ status.numBlocks = toUint64(status.evaluated)
       /\ status.num = 100 * status.optimals
       /\ Len(chain) = WindowSize => status.evaluated = WindowSize - 1

\* The blocks BlockStatus walks on the chain: the WindowSize blocks below the
\* head, or the blocks from 1 on below a head under WindowSize.
Walked ==
    IF Len(chain) < WindowSize THEN 1 .. Len(chain) - 1
    ELSE Len(chain) - WindowSize .. Len(chain) - 1

\* The sum of the counts of a map.
RECURSIVE SumOf(_)
SumOf(m) ==
    IF DOMAIN m = {} THEN 0
    ELSE LET a == CHOOSE x \in DOMAIN m : TRUE
         IN  m[a] + SumOf([x \in DOMAIN m \ {a} |-> m[x]])

\* The answer holds no count and no percentage.
NoCounts ==
    /\ status.signStatus = EmptyMap
    /\ status.num = 0
    /\ status.numBlocks = <<0, 0, 0, 0>>
    /\ status.evaluated = 0
    /\ status.optimals = 0

\* C21: in the answer of BlockStatus every signer of the head snapshot has a
\* count, the count of each address is the number of walked headers whose seal
\* recovers to it, and the counts add up to the number of walked headers.
C21_SignerCounts ==
    (status.done /\ status.err = "none") =>
       LET head == CurrentHeader
       IN  /\ snapshot(head.number, head.hash).snap.signers \subseteq DOMAIN status.signStatus
           /\ \A a \in DOMAIN status.signStatus :
                  status.signStatus[a] =
                     Cardinality({n \in Walked : headerOf(n).author = a})
           /\ SumOf(status.signStatus) = Cardinality(Walked)
           /\ status.evaluated = Cardinality(Walked)

\* BlockStatus answered with a signer that sealed none of the walked blocks and
\* a signer that sealed one.
C21_Witness ==
    /\ status.done
    /\ status.err = "none"
    /\ \E a \in DOMAIN status.signStatus : status.signStatus[a] = 0
    /\ \E a \in DOMAIN status.signStatus : status.signStatus[a] = 1

\* C22: BlockStatus fails, and answers with no counts, whenever the chain has
\* no header for a walked block or the seal of a walked header recovers to no
\* address.
C22_FailsWhole ==
    (status.done /\ \E n \in Walked : n \in lost \/ headerOf(n).author = 0) =>
       /\ status.err # "none"
       /\ NoCounts

\* BlockStatus failed at a missing block after it had counted earlier ones.
C22_Witness ==
    /\ status.done
    /\ status.err = "missing block"
    /\ Cardinality(status.read) > 1
    /\ NoCounts

\* C23: when the snapshot store fails for the block a query resolved, the
\* validator and block-status queries answer with that error and a nil result,
\* and so does BlockStatus for the head.
C23_SnapshotError ==
    /\ (answer.reply.method \in ByNumber \cup ByHash /\ answer.reply.asked # << >>) =>
          LET r == snapshot(answer.reply.asked[1][1], answer.reply.asked[1][2])
          IN  r.err # "none" =>
                 /\ answer.reply.err = r.err
                 /\ answer.reply.result = NilResult
    /\ status.done =>
          LET head == CurrentHeader
              r == snapshot(head.number, head.hash)
          IN  r.err # "none" => (status.err = r.err /\ NoCounts)

\* A validator query and BlockStatus both failed with the error of the store.
C23_Witness ==
    /\ answer.reply.method \in {"GetValidatorsByNumber", "GetValidatorsByHash"}
    /\ answer.reply.err = "GenesisMismatch"
    /\ answer.reply.result = NilResult
    /\ status.done
    /\ status.err = "GenesisMismatch"

\* C30: on a head from 1 on, BlockStatus asks the chain only for blocks from 1
\* to the block below the head, never for the genesis block.
C30_NoGenesis ==
    (status.done /\ Len(chain) >= 1) => status.read \subseteq 1 .. Len(chain) - 1

\* ------------------------------------------------ properties of the service
\* No wallet of the account manager holds the address.
NoWalletFor(a) ==
    \A i \in DOMAIN fst.wallets : \A j \in DOMAIN fst.wallets[i] : fst.wallets[i][j] # a

\* The kind of engine the configuration asks for.
ConfiguredKind ==
    IF fst.config.clique THEN "clique"
    ELSE IF fst.config.pbft THEN "pbft"
    ELSE CASE fst.config.powMode = "fake" -> "faker"
           [] fst.config.powMode = "test" -> "tester"
           [] fst.config.powMode = "shared" -> "shared"
           [] OTHER -> "fstash"

\* The block the last test was asked about is local: the engine recovers its
\* author, and the author is the stormbase the test read or a local account of
\* the pool.
AskedLocal ==
    /\ Engine.kind \in PoA => ret.block.sealed
    /\ \/ ret.block.author = ret.eb
       \/ ret.block.author \in fst.config.locals

\* C24: under Clique or PBFT, a StartMining that finds the miner not running
\* and resolves a stormbase no wallet holds returns 'signer missing', does not
\* authorize the engine and does not start the miner.
C24_SignerMissing ==
    (/\ ret.op = "StartMining"
     /\ Engine.kind \in PoA
     /\ ~ret.wasMining
     /\ ret.eb # NoAddress
     /\ NoWalletFor(ret.eb)) =>
       /\ ret.err = "signer missing"
       /\ "signer" \notin ret.touched
       /\ "miner" \notin ret.touched
       /\ ret.started = NoAddress

\* StartMining failed under PBFT for a stormbase that the wallets, of which
\* there are some, do not hold.
C24_Witness ==
    /\ ret.op = "StartMining"
    /\ ret.err = "signer missing"
    /\ Engine.kind = "pbft"
    /\ fst.wallets # << >>
    /\ Engine.signer = NoAddress
    /\ ~miner.mining

\* C25: one engine is created, of the kind the configuration asks for (Clique
\* before PBFT before proof of work by PowMode), and the engine of the service
\* is that engine after every sequence of calls.
C25_OneEngine ==
    /\ Len(made) = 1
    /\ fst.engine = 1
    /\ Engine.kind = ConfiguredKind

\* With a Clique and a Pbft section configured, the calls were all made and the
\* last to return was APIs.
C25_Witness ==
    /\ fst.config.clique
    /\ fst.config.pbft
    /\ ops = MaxOps
    /\ ret.op = "APIs"
    /\ Engine.kind = "clique"

\* C26: shouldPreserve answers false for every block under Clique or PBFT, and
\* under every other engine it answers whether the block is local.
C26_ShouldPreserve ==
    ret.op = "shouldPreserve" =>
       ret.result = (IF Engine.kind \in PoA THEN FALSE ELSE AskedLocal)

\* Under PBFT a sealed block of the stormbase was not to be preserved.
C26_Witness ==
    /\ ret.op = "shouldPreserve"
    /\ Engine.kind = "pbft"
    /\ ret.block.sealed
    /\ ret.eb # NoAddress
    /\ ret.block.author = ret.eb
    /\ ~ret.result

\* C27: once SetEtherbase has stored an address other than the zero address,
\* the stormbase is that address until the next SetEtherbase; Stormbase() never
\* writes the first account over it.
C27_ExplicitKept ==
    explicit # NoAddress => fst.stormbase = explicit

\* C28 as stated: a StartMining that fails has not started the miner, has kept
\* the acceptTxs flag, has not authorized the engine and has kept the thread
\* count of the engine; one that returns nil from a miner not running has set
\* the flag and started the miner with the stormbase it resolved.
C28_FailureChangesNothing ==
    /\ (ret.op = "StartMining" /\ ret.err # "none") =>
          ret.touched \cap {"miner", "acceptTxs", "signer", "threads"} = {}
    /\ (ret.op = "StartMining" /\ ret.err = "none" /\ ~ret.wasMining) =>
          /\ fst.acceptTxs = 1
          /\ ret.eb # NoAddress
          /\ ret.started = ret.eb

\* C28, amended: a StartMining that fails has not started the miner, has kept
\* the acceptTxs flag and has not authorized the engine; one that returns nil
\* from a miner not running has set the flag and started the miner with the
\* stormbase it resolved.
C28_FailureStartsNothing ==
    /\ (ret.op = "StartMining" /\ ret.err # "none") =>
          /\ ret.touched \cap {"miner", "acceptTxs", "signer"} = {}
          /\ ret.started = NoAddress
    /\ (ret.op = "StartMining" /\ ret.err = "none" /\ ~ret.wasMining) =>
          /\ fst.acceptTxs = 1
          /\ ret.eb # NoAddress
          /\ ret.started = ret.eb

\* StartMining failed for want of a stormbase after it had changed the thread
\* count of the engine, with transactions not accepted.
C28_Witness ==
    /\ ret.op = "StartMining"
    /\ ret.err = "stormbase missing"
    /\ "threads" \in ret.touched
    /\ fst.acceptTxs = 0
    /\ miner.pending = << >>

\* C29: isLocalBlock answers true exactly when the engine recovers the author
\* of the block and the author is the stormbase or a local account of the pool.
C29_IsLocalBlock ==
    ret.op = "isLocalBlock" => ret.result = AskedLocal

\* A block of a local account of the pool, not the stormbase, was found local.
C29_Witness ==
    /\ ret.op = "isLocalBlock"
    /\ ret.result
    /\ ret.block.author # ret.eb
    /\ ret.block.author \in fst.config.locals

\* C31: every query ends with a result or with an error, never with a panic:
\* BlockStatus answers UnknownBlock when the chain reader has no current header,
\* as the queries by number do.
C31_ResultOrError ==
    /\ status.done =>
          /\ ~status.panic
          /\ CurrentHeader.nil => status.err = "UnknownBlock"
    /\ answer.reply.method # "none" =>
          /\ (answer.reply.err = "none") = ~answer.reply.result.nil
          /\ CurrentHeader.nil => answer.reply.err = "UnknownBlock"

\* ----------------------------------------------- properties of the contract
\* The block number at which the contract before the last transaction was due
\* to be flushed, and the validators of its latest round.
DueBefore == (tx.before.lastFlushedBlock + tx.before.flushEpoch) % Word
ValidatorsBefore ==
    LET list == tx.before.flushValidatorList[Len(tx.before.flushList)]
    IN  {list[i] : i \in DOMAIN list}
Flushes == {"flush", "superflush"}
AdminsOf(c) == {a \in Addr : c.admins[a] = 1}

\* C32: a flush or superflush that records a round was called with the block
\* number lastFlushedBlock + flushEpoch, sets lastFlushedBlock to it, appends to
\* flushList the one id that follows the last, and takes FLUSH_AMOUNT off the
\* balance; a call with another block number reverts and changes nothing.
C32_InSequence ==
    tx.op \in Flushes =>
       /\ tx.recorded =>
             /\ tx.blockNumber = DueBefore
             /\ app.lastFlushedBlock = tx.blockNumber
             /\ app.flushList =
                   Append(tx.before.flushList,
                          tx.before.flushList[Len(tx.before.flushList)] + 1)
             /\ app.balance = tx.before.balance - FlushAmount
       /\ tx.blockNumber # DueBefore => (tx.reverted /\ app = tx.before)

\* C33: a flush sent by an address that is neither a validator of the latest
\* round nor an admin records no round and leaves flushList, flushMapping,
\* flushValidatorList, lastFlushedBlock and balance as they were.
C33_OnlyValidatorsAndAdmins ==
    (/\ tx.op = "flush"
     /\ tx.sender \notin ValidatorsBefore
     /\ tx.before.admins[tx.sender] # 1) =>
       /\ ~tx.recorded
       /\ app.flushList = tx.before.flushList
       /\ app.flushMapping = tx.before.flushMapping
       /\ app.flushValidatorList = tx.before.flushValidatorList
       /\ app.lastFlushedBlock = tx.before.lastFlushedBlock
       /\ app.balance = tx.before.balance

\* An address that is no admin and no validator of the latest round, which has
\* validators, sent a flush at the due block number; it returned without a
\* round.
C33_Witness ==
    /\ tx.op = "flush"
    /\ ~tx.reverted
    /\ ~tx.recorded
    /\ tx.blockNumber = DueBefore
    /\ ValidatorsBefore # {}
    /\ tx.sender \notin ValidatorsBefore
    /\ tx.before.admins[tx.sender] # 1

\* C34: a flush or superflush sent by an admin at the due block number, on a
\* balance of FLUSH_AMOUNT or more, records a round whatever the validators of
\* the latest round are.
C34_AdminCanFlush ==
    (/\ tx.op \in Flushes
     /\ tx.before.admins[tx.sender] = 1
     /\ tx.before.balance >= FlushAmount
     /\ tx.blockNumber = DueBefore) => tx.recorded

\* C35: some address is an admin, after the constructor and after every
\* transaction.
C35_SomeAdmin == AdminsOf(app) # {}

\* An admin removed the only other admin.
C35_Witness ==
    /\ tx.op = "removeAdmin"
    /\ ~tx.reverted
    /\ Cardinality(AdminsOf(tx.before)) = 2
    /\ AdminsOf(app) = {tx.sender}

\* C36: setGenesisInfo reverts for a sender that is no admin; sent by an admin
\* it stores its argument the first time and reverts every later time; and
\* getGenesisInfo returns the info stored first ever after.
C36_GenesisOnce ==
    /\ tx.op = "setGenesisInfo" =>
          /\ tx.before.admins[tx.sender] # 1 => tx.reverted
          /\ tx.reverted => app = tx.before
          /\ ~tx.reverted => (ledger.first = tx.genesis /\ getGenesisInfo = tx.genesis)
          /\ (tx.reverted /\ tx.before.admins[tx.sender] = 1) =>
                (ledger.stored /\ getGenesisInfo = ledger.first)
    /\ ledger.stored => getGenesisInfo = ledger.first
    /\ ~ledger.stored => getGenesisInfo = ""

\* An admin's setGenesisInfo with another info reverted after the info had
\* been stored.
C36_Witness ==
    /\ tx.op = "setGenesisInfo"
    /\ tx.reverted
    /\ tx.before.admins[tx.sender] = 1
    /\ ledger.stored
    /\ tx.genesis # ledger.first
    /\ getGenesisInfo = ledger.first

\* C37: the balance is the constructor's deposit plus what addFund paid in,
\* less what was withdrawn and FLUSH_AMOUNT for every recorded round, and a
\* flush on a balance above 0 and below FLUSH_AMOUNT records no round.
C37_BalanceAccounted ==
    /\ app.balance = ledger.deposit + ledger.added - ledger.withdrawn
                        - FlushAmount * (Len(app.flushList) - 1)
    /\ (/\ tx.op \in Flushes
        /\ tx.before.balance > 0
        /\ tx.before.balance < FlushAmount) => ~tx.recorded

====
